---------------------------- MODULE Spec2Model ----------------------------
(***************************************************************************)
(* LiteMark.js: window.markdownToHtml as a state machine.                  *)
(*                                                                         *)
(* A string is a sequence of one-character strings.  Positions are 1-based *)
(* (position p here is index p-1 of the JavaScript source).  SANY cannot   *)
(* lex a backquote inside a string literal, so the backquote character is  *)
(* written BT, the one-character string "^"; no modelled input contains a  *)
(* circumflex of its own, and the program treats neither character         *)
(* specially outside the places modelled with BT.                          *)
(***************************************************************************)
EXTENDS Naturals, Integers, Sequences, FiniteSets, TLC

VARIABLES
    pc,                 \* position of the running activation in markdownToHtml
    input,              \* the argument of the running activation
    md,                 \* the text buffer (parameter md)
    escapePlaceholders, \* [placeholder, ch] records
    codeBlocks,         \* [placeholder, html] records
    inlineCodeBlocks,   \* [placeholder, code] records
    escapeIndex,
    codeIndex,
    inlineIndex,
    html,               \* the assembled output (let html), the returned value at "done"
    results,            \* the values the nested calls of the blockquote pass returned
    callers,            \* the activations that wait for the running one, outermost first
    history,            \* the client's finished calls, oldest first: [input, html, threw]
    nodes,              \* the nodes of the host page
    readyState,         \* document.readyState
    styles,             \* the style rules that hide the markdown elements, in the head
    listeners,          \* the listeners of DOMContentLoaded that the script registered
    loads,              \* the times the script was loaded
    added,              \* the elements that page scripts added, and when
    renderCalls         \* the finished calls of renderAllMarkdownTags, oldest first

conversionVars == <<pc, input, md, escapePlaceholders, codeBlocks, inlineCodeBlocks,
                    escapeIndex, codeIndex, inlineIndex, html, results, callers, history>>
hostVars == <<nodes, readyState, styles, listeners, loads, added, renderCalls>>
vars == <<conversionVars, hostVars>>

-----------------------------------------------------------------------------
(* Strings *)

S(str) == [i \in 1..Len(str) |-> SubSeq(str, i, i)]

BT == "^"
NL == "\n"
CR == "\r"

Digits == {"0", "1", "2", "3", "4", "5", "6", "7", "8", "9"}
Letters == {S("abcdefghijklmnopqrstuvwxyz")[i] : i \in 1..26}
             \cup {S("ABCDEFGHIJKLMNOPQRSTUVWXYZ")[i] : i \in 1..26}
\* \w of a JavaScript regular expression
WordChars == Letters \cup Digits \cup {"_"}
\* \s, and what String.prototype.trim removes
WhiteSpace == {" ", "\t", NL, CR}
\* what "." does not match and where "^" and "$" match under the m flag
LineTerminators == {NL, CR}

Range(s) == {s[i] : i \in 1..Len(s)}

Max(a, b) == IF a >= b THEN a ELSE b
Min(a, b) == IF a <= b THEN a ELSE b

\* s[a..b], empty when b < a (String.prototype.substring on 1-based bounds)
Sub(s, a, b) == IF b < a THEN <<>> ELSE SubSeq(s, a, b)
From(s, a) == Sub(s, a, Len(s))

\* The least and the greatest member of a set of positions, or 0
Least(set) == IF set = {} THEN 0 ELSE CHOOSE i \in set : \A j \in set : i <= j
Greatest(set) == IF set = {} THEN 0 ELSE CHOOSE i \in set : \A j \in set : i >= j
\* The first i in a..b with P(i), or 0.
First(a, b, P(_)) == Least({i \in a..b : P(i)})
\* The last i in a..b with P(i), or 0.
Last(a, b, P(_)) == Greatest({i \in a..b : P(i)})
\* k, or d when k is 0
OrElse(k, d) == IF k = 0 THEN d ELSE k
\* A value computed once and named in what follows: const x = val; F(x)
With(val, F(_)) == F(val)

\* Concatenation of ss[a], ..., ss[b]
RECURSIVE FlatRange(_, _, _)
FlatRange(ss, a, b) ==
    IF a > b THEN <<>>
    ELSE IF a = b THEN ss[a]
    ELSE LET m == (a + b) \div 2 IN FlatRange(ss, a, m) \o FlatRange(ss, m + 1, b)
Flat(ss) == FlatRange(ss, 1, Len(ss))

\* Array.prototype.join
Join(ss, sep) ==
    Flat([k \in 1..(2 * Len(ss) - 1) |-> IF k % 2 = 1 THEN ss[(k + 1) \div 2] ELSE sep])

\* src.substr(pos, str.length) === str
match(src, pos, str) ==
    /\ pos >= 1
    /\ pos + Len(str) - 1 <= Len(src)
    /\ SubSeq(src, pos, pos + Len(str) - 1) = str

\* String.prototype.indexOf from a position: the first match at or after from, or 0
IndexFrom(s, str, from) == First(from, Len(s) - Len(str) + 1, LAMBDA i : match(s, i, str))
IndexOf(s, str) == IndexFrom(s, str, 1)

\* String.prototype.split on a one-character separator
RECURSIVE SplitFrom(_, _, _)
SplitFrom(s, sep, from) ==
    With(First(from, Len(s), LAMBDA i : s[i] = sep), LAMBDA k :
        IF k = 0 THEN <<Sub(s, from, Len(s))>>
        ELSE <<Sub(s, from, k - 1)>> \o SplitFrom(s, sep, k + 1))
Split(s, sep) == SplitFrom(s, sep, 1)

\* Number.prototype.toString of a natural number
RECURSIVE NumStr(_)
NumStr(n) ==
    IF n < 10 THEN <<S("0123456789")[n + 1]>>
    ELSE NumStr(n \div 10) \o <<S("0123456789")[(n % 10) + 1]>>

\* The position under the m flag where "^" matches
AtLineStart(s, p) == p = 1 \/ (p - 1 <= Len(s) /\ s[p - 1] \in LineTerminators)
\* The position under the m flag where "$" matches
AtLineEnd(s, p) == p = Len(s) + 1 \/ (p <= Len(s) /\ s[p] \in LineTerminators)
\* The end of the run of "." characters that starts at p: the first position
\* at or after p that holds a line terminator, or Len(s) + 1
DotEnd(s, p) == OrElse(First(p, Len(s), LAMBDA i : s[i] \in LineTerminators), Len(s) + 1)
\* The first position at or after p that does not hold a character of set
SkipSet(s, p, set) == OrElse(First(p, Len(s), LAMBDA i : s[i] \notin set), Len(s) + 1)

trimStart(s) == From(s, SkipSet(s, 1, WhiteSpace))
trimEnd(s) == Sub(s, 1, Last(1, Len(s), LAMBDA i : s[i] \notin WhiteSpace))
trim(s) == trimEnd(trimStart(s))

\* GetSubstitution of String.prototype.replace(string, string): "$$", "$&",
\* "$`" and "$'" in the replacement text; a string pattern has no groups.
RECURSIVE SubstFrom(_, _, _, _, _)
SubstFrom(repl, from, matched, before, after) ==
    With(First(from, Len(repl) - 1,
               LAMBDA i : repl[i] = "$" /\ repl[i + 1] \in {"$", "&", BT, "'"}),
         LAMBDA k :
        IF k = 0 THEN From(repl, from)
        ELSE Sub(repl, from, k - 1)
             \o (CASE repl[k + 1] = "$" -> <<"$">>
                   [] repl[k + 1] = "&" -> matched
                   [] repl[k + 1] = BT -> before
                   [] OTHER -> after)
             \o SubstFrom(repl, k + 2, matched, before, after))

\* String.prototype.replace(pattern string, replacement string): the first
\* occurrence only.
spliceFirst(before, pat, repl, after) ==
    before \o SubstFrom(repl, 1, pat, before, after) \o after
replaceFirst(s, pat, repl) ==
    With(IndexOf(s, pat), LAMBDA k :
        IF k = 0 THEN s
        ELSE spliceFirst(Sub(s, 1, k - 1), pat, repl, From(s, k + Len(pat))))

\* String.prototype.replaceAll(pattern string, replacement string) for a
\* replacement without "$"
RECURSIVE replaceAllFrom(_, _, _, _)
replaceAllFrom(s, pat, repl, from) ==
    With(IndexFrom(s, pat, from), LAMBDA k :
        IF k = 0 THEN From(s, from)
        ELSE Sub(s, from, k - 1) \o repl \o replaceAllFrom(s, pat, repl, k + Len(pat)))
replaceAll(s, pat, repl) == replaceAllFrom(s, pat, repl, 1)

-----------------------------------------------------------------------------
(* escapeHtml *)

\* /&(?![a-zA-Z]+;)/ at position i
BareAmp(h, i) ==
    /\ h[i] = "&"
    /\ With(SkipSet(h, i + 1, Letters), LAMBDA e : ~(e > i + 1 /\ e <= Len(h) /\ h[e] = ";"))

escapeHtml(h) ==
    Flat([i \in 1..Len(h) |->
            CASE h[i] = "&" /\ BareAmp(h, i) -> S("&amp;")
              [] h[i] = "<" -> S("&lt;")
              [] h[i] = ">" -> S("&gt;")
              [] h[i] = "\"" -> S("&quot;")
              [] h[i] = "'" -> S("&#39;")
              [] OTHER -> <<h[i]>>])

-----------------------------------------------------------------------------
(* Escaper *)

EscapeSet == {"\\", BT, "*", "_", "{", "}", "[", "]", "(", ")", "#", "+", "-",
              ".", "!", "~", ">"}

escapedPlaceholder(n) == S("<!--escaped_") \o NumStr(n) \o S("-->")
codeblockPlaceholder(n) == S("<!--codeblock_") \o NumStr(n) \o S("-->")
inlinecodePlaceholder(n) == S("<!--inlinecode_") \o NumStr(n) \o S("-->")

\* md.replace(/\\([\\`*_{}\[\]()#+\-.!~>])/g, ...): the matches from left to
\* right, none overlapping the one before.
RECURSIVE EscaperFrom(_, _, _, _, _)
EscaperFrom(s, from, out, table, index) ==
    With(First(from, Len(s) - 1, LAMBDA i : s[i] = "\\" /\ s[i + 1] \in EscapeSet),
         LAMBDA k :
        IF k = 0
        THEN [md |-> out \o From(s, from), escapePlaceholders |-> table,
              escapeIndex |-> index]
        ELSE With(escapedPlaceholder(index), LAMBDA placeholder :
                 EscaperFrom(s, k + 2, out \o Sub(s, from, k - 1) \o placeholder,
                             Append(table, [placeholder |-> placeholder, ch |-> s[k + 1]]),
                             index + 1)))
Escaper(s, table, index) == EscaperFrom(s, 1, <<>>, table, index)

-----------------------------------------------------------------------------
(* Literal Tokenizer: parseBackticks *)

\* l.match(/^ */): the match, which always exists
MatchLeadingSpaces(l) ==
    [found |-> TRUE, text |-> Sub(l, 1, SkipSet(l, 1, {" "}) - 1)]

\* lines.shift() while the first line is blank, lines.pop() while the last is
DropBlankEnds(lines) ==
    With(First(1, Len(lines), LAMBDA i : trim(lines[i]) # <<>>), LAMBDA a :
        IF a = 0 THEN <<>>
        ELSE SubSeq(lines, a, Last(1, Len(lines), LAMBDA i : trim(lines[i]) # <<>>)))

\* codeText.replace(/\r/g, "").split("\n") with the blank ends dropped
fencedLines(codeText) == DropBlankEnds(Split(SelectSeq(codeText, LAMBDA c : c # CR), NL))

MinIndentInit == 9999

\* the forEach that lowers minIndent to the fewest leading spaces of a
\* non-blank line
minIndentOf(lines) ==
    With({Len(MatchLeadingSpaces(lines[i]).text) :
             i \in {j \in 1..Len(lines) : trim(lines[j]) # <<>>}},
         LAMBDA widths : IF widths = {} THEN MinIndentInit ELSE Least(widths))

\* .match(...)[0] of a null match throws a TypeError
MinIndentThrows(lines) ==
    \E i \in 1..Len(lines) : trim(lines[i]) # <<>> /\ ~MatchLeadingSpaces(lines[i]).found

\* the loop that restores the escaped characters inside a fenced block
RECURSIVE RestoreEscapes(_, _, _)
RestoreEscapes(cleaned, table, j) ==
    IF j > Len(table) THEN cleaned
    ELSE RestoreEscapes(replaceAll(cleaned, table[j].placeholder, <<table[j].ch>>),
                        table, j + 1)

\* lines.map((l) => l.slice(minIndent)).join("\n")
dedent(lines, minIndent) ==
    Join([i \in 1..Len(lines) |-> From(lines[i], minIndent + 1)], <<NL>>)

\* languageOf without the language tag: every block is tagged plaintext
languagePlain(tag) == S("plaintext")

\* lang.trim() || "plaintext"
languageOf(tag) == IF tag = <<>> THEN S("plaintext") ELSE tag

\* The rendering of a fenced block from its language tag and its lines
fencedHtml(lang, lines, table) ==
    S("<pre class=\"language-") \o languageOf(trim(lang)) \o S("\"><code>")
    \o escapeHtml(RestoreEscapes(dedent(lines, minIndentOf(lines)), table, 1))
    \o S("</code></pre>")

\* if (src[p] === ch) p++
skipOne(src, p, ch) == IF p <= Len(src) /\ src[p] = ch THEN p + 1 ELSE p

\* the branch of a fence that opens at position k
fencedToken(src, table, st, k) ==
    With(SkipSet(src, k + 3, {c \in Range(src) : c \notin WhiteSpace}), LAMBDA langEnd :
    With(skipOne(src, skipOne(src, langEnd, CR), NL), LAMBDA codeStart :
    With(IndexFrom(src, <<BT, BT, BT>>, codeStart), LAMBDA codeEnd :
    With(fencedLines(Sub(src, codeStart, IF codeEnd # 0 THEN codeEnd - 1 ELSE Len(src))),
         LAMBDA lines :
    With(codeblockPlaceholder(st.codeIndex), LAMBDA placeholder :
        [st EXCEPT !.out = st.out \o Sub(src, st.i, k - 1) \o placeholder,
                   !.codeBlocks = Append(@, [placeholder |-> placeholder,
                                             html |-> fencedHtml(Sub(src, k + 3, langEnd - 1),
                                                                 lines, table)]),
                   !.codeIndex = @ + 1,
                   !.threw = MinIndentThrows(lines),
                   !.i = IF codeEnd # 0 THEN codeEnd + 3 ELSE Len(src) + 1])))))

\* inlineToken with a marker that has no closer left in the text as it
\* stands, the scan going on after it
inlineTokenClosed(src, st, k, w) ==
    With(IndexFrom(src, [i \in 1..w |-> BT], k + w), LAMBDA j :
        IF j = 0
        THEN [st EXCEPT !.out = st.out \o Sub(src, st.i, k + w - 1), !.i = k + w]
        ELSE With(inlinecodePlaceholder(st.inlineIndex), LAMBDA placeholder :
                 [st EXCEPT !.out = st.out \o Sub(src, st.i, k - 1) \o placeholder,
                            !.inlineCodeBlocks =
                                Append(@, [placeholder |-> placeholder,
                                           code |-> Sub(src, k + w, j - 1)]),
                            !.inlineIndex = @ + 1,
                            !.i = j + w]))

\* the branches of a span that opens at position k with a marker of w
\* backquotes (w is 2 or 1)
inlineToken(src, st, k, w) ==
    With(IndexFrom(src, [i \in 1..w |-> BT], k + w), LAMBDA j :
    With(inlinecodePlaceholder(st.inlineIndex), LAMBDA placeholder :
        [st EXCEPT !.out = st.out \o Sub(src, st.i, k - 1) \o placeholder,
                   !.inlineCodeBlocks =
                       Append(@, [placeholder |-> placeholder,
                                  code |-> Sub(src, k + w, IF j # 0 THEN j - 1 ELSE Len(src))]),
                   !.inlineIndex = @ + 1,
                   !.i = IF j # 0 THEN j + w ELSE Len(src) + 1]))

\* the token that opens at the backquote at position k
token(src, table, st, k) ==
    IF match(src, k, <<BT, BT, BT>>) THEN fencedToken(src, table, st, k)
    ELSE IF match(src, k, <<BT, BT>>) THEN inlineToken(src, st, k, 2)
    ELSE inlineToken(src, st, k, 1)

\* One turn of the while loop of parseBackticks from position st.i, the
\* ordinary characters before the next backquote copied in one step.
RECURSIVE parseLoop(_, _, _)
parseLoop(src, table, st) ==
    IF st.threw THEN st
    ELSE With(First(st.i, Len(src), LAMBDA p : src[p] = BT), LAMBDA k :
             IF k = 0 THEN [st EXCEPT !.out = st.out \o From(src, st.i), !.i = Len(src) + 1]
             ELSE parseLoop(src, table, token(src, table, st, k)))

parseBackticks(src, table, cBlocks, iBlocks, cIndex, iIndex) ==
    parseLoop(src, table,
              [i |-> 1, out |-> <<>>, codeBlocks |-> cBlocks, inlineCodeBlocks |-> iBlocks,
               codeIndex |-> cIndex, inlineIndex |-> iIndex, threw |-> FALSE])

-----------------------------------------------------------------------------
(* Indentation Normalizer *)

\* "[-+*] " at position a
bulletAt(s, a) == a + 1 <= Len(s) /\ s[a] \in {"-", "+", "*"} /\ s[a + 1] = " "
\* "\. " at position d, after the digits that start at position a
dotAt(s, a, d) == d > a /\ d + 1 <= Len(s) /\ s[d] = "." /\ s[d + 1] = " "

\* /^( *)(\d+\. |[-+*] )/.test(line)
IsListPrefix(line) ==
    With(SkipSet(line, 1, {" "}), LAMBDA a :
        bulletAt(line, a) \/ dotAt(line, a, SkipSet(line, a, Digits)))

trimIndentLine(line) ==
    IF \/ IsListPrefix(line)
       \/ IndexOf(line, <<BT, BT, BT>>) = 1
       \/ IndexOf(line, S("<!--codeblock_")) = 1
    THEN line
    ELSE From(line, SkipSet(line, 1, WhiteSpace))

trimIndentLines(lines) == Join([i \in 1..Len(lines) |-> trimIndentLine(lines[i])], <<NL>>)
trimIndentation(text) == trimIndentLines(Split(text, NL))

-----------------------------------------------------------------------------
(* Runs of lines: /((?:^ LINE .+(?:\n|$))+)/gm *)

\* the position after the line break at e, or e
afterBreak(s, e) == IF e <= Len(s) /\ s[e] = NL THEN e + 1 ELSE e

\* ".+(?:\n|$)" from position p: the position after it, or 0
RestOfLine(s, p) ==
    With(DotEnd(s, p), LAMBDA e : IF e = p THEN 0 ELSE afterBreak(s, e))

\* "[-+*] \[[ xX]\] " at position a
boxAt(s, a) ==
    /\ a + 5 <= Len(s)
    /\ s[a] \in {"-", "+", "*"}
    /\ s[a + 1] = " "
    /\ s[a + 2] = "["
    /\ s[a + 3] \in {" ", "x", "X"}
    /\ s[a + 4] = "]"
    /\ s[a + 5] = " "

\* "^ *[-+*] \[[ xX]\] .+(?:\n|$)" at position p: the position after it, or 0
checkboxLineEnd(s, p) ==
    IF ~AtLineStart(s, p) THEN 0
    ELSE With(SkipSet(s, p, {" "}), LAMBDA a :
             IF boxAt(s, a) THEN RestOfLine(s, a + 6) ELSE 0)

\* the end of the marker "(?:[-+*]|\d+\.) " that starts at position a, or 0
markerEnd(s, a, d) ==
    IF bulletAt(s, a) THEN a + 2 ELSE IF dotAt(s, a, d) THEN d + 2 ELSE 0

\* "^ *(?:[-+*]|\d+\.) .+(?:\n|$)" at position p: the position after it, or 0
listLineEnd(s, p) ==
    IF ~AtLineStart(s, p) THEN 0
    ELSE With(SkipSet(s, p, {" "}), LAMBDA a :
         With(markerEnd(s, a, SkipSet(s, a, Digits)), LAMBDA c :
             IF c = 0 THEN 0 ELSE RestOfLine(s, c)))

lineEnd(kind, s, p) ==
    IF kind = "checkbox" THEN checkboxLineEnd(s, p) ELSE listLineEnd(s, p)

\* The end of the run of lines that starts at p, where a line matches
RECURSIVE runEnd(_, _, _)
runEnd(kind, s, p) ==
    With(lineEnd(kind, s, p), LAMBDA e : IF e = 0 THEN p ELSE runEnd(kind, s, e))

-----------------------------------------------------------------------------
(* Checkbox List Renderer *)

\* /\[x\]/i.test(line)
checkedTest(line) ==
    \E i \in 1..(Len(line) - 2) :
        line[i] = "[" /\ line[i + 1] \in {"x", "X"} /\ line[i + 2] = "]"

\* line.replace(/^ *[-+*] \[[ xX]\] /, "")
checkboxContent(line) ==
    With(SkipSet(line, 1, {" "}), LAMBDA a :
        IF boxAt(line, a) THEN From(line, a + 6) ELSE line)

checkboxItem(line) ==
    S("<li style=\"list-style: none;\"><label><input type=\"checkbox\"")
    \o (IF checkedTest(line) THEN S(" checked") ELSE <<>>)
    \o S(" disabled /> ") \o checkboxContent(line) \o S("</label></li>")

checkboxItems(lines) ==
    S("<ul>") \o Flat([i \in 1..Len(lines) |-> checkboxItem(lines[i])]) \o S("</ul>")
renderCheckboxes(block) == checkboxItems(Split(trim(block), NL))

-----------------------------------------------------------------------------
(* Nested List Renderer *)

\* "(.+)$" from position c of the line
wholeLine(line, c) == c <= Len(line) /\ DotEnd(line, c) = Len(line) + 1

\* the groups of a match whose marker is line[a..m-1] and whose content
\* starts at position c
listGroups(line, a, m, c) ==
    [found |-> TRUE, indent |-> a - 1, marker |-> Sub(line, a, m - 1), content |-> From(line, c)]

\* the end of "([-+*]|\d+)" at position a, digits ending at position d
dottedEnd(line, a, d) == IF a <= Len(line) /\ line[a] \in {"-", "+", "*"} THEN a + 1 ELSE d

\* line.match(/^( *)([-+*]|\d+)\. (.+)$/) || line.match(/^( *)([-+*]) (.+)$/)
listMatch(line) ==
    With(SkipSet(line, 1, {" "}), LAMBDA a :
    With(dottedEnd(line, a, SkipSet(line, a, Digits)), LAMBDA m :
        IF dotAt(line, a, m) /\ wholeLine(line, m + 2)
        THEN listGroups(line, a, m, m + 2)
        ELSE IF bulletAt(line, a) /\ wholeLine(line, a + 2)
        THEN listGroups(line, a, a + 1, a + 2)
        ELSE [found |-> FALSE, indent |-> 0, marker |-> <<>>, content |-> <<>>]))

\* /^\d+$/.test(marker)
IsOrderedMarker(marker) == marker # <<>> /\ \A i \in 1..Len(marker) : marker[i] \in Digits

\* popDeeper with the comparison >= in place of >
RECURSIVE popDeeperOrEqual(_, _)
popDeeperOrEqual(st, indent) ==
    IF st.stack # <<>> /\ st.stack[Len(st.stack)].indent >= indent
    THEN popDeeperOrEqual([html |-> st.html \o S("</li></") \o st.stack[Len(st.stack)].type
                                    \o S(">"),
                           stack |-> SubSeq(st.stack, 1, Len(st.stack) - 1)], indent)
    ELSE st

\* while (stack.length && stack[stack.length - 1].indent > indent) pop and close
RECURSIVE popDeeper(_, _)
popDeeper(st, indent) ==
    IF st.stack # <<>> /\ st.stack[Len(st.stack)].indent > indent
    THEN popDeeper([html |-> st.html \o S("</li></") \o st.stack[Len(st.stack)].type \o S(">"),
                    stack |-> SubSeq(st.stack, 1, Len(st.stack) - 1)], indent)
    ELSE st

\* opensList with the comparison <= in place of <
opensListOrEqual(stack, indent) == stack = <<>> \/ stack[Len(stack)].indent <= indent

\* stack.length is 0 or the top frame is shallower than the line: open a list
opensList(stack, indent) == stack = <<>> \/ stack[Len(stack)].indent < indent

\* openItem that opens a new list for every line
openItemPushing(popped, indent, type) ==
    [html |-> popped.html \o S("<") \o type \o S("><li>"),
     stack |-> Append(popped.stack, [indent |-> indent, type |-> type])]

\* the item opened in a new list of the type, or after closing the item before
openItem(popped, indent, type) ==
    IF opensList(popped.stack, indent)
    THEN [html |-> popped.html \o S("<") \o type \o S("><li>"),
          stack |-> Append(popped.stack, [indent |-> indent, type |-> type])]
    ELSE [html |-> popped.html \o S("</li><li>"), stack |-> popped.stack]

\* the content of an item, after the hidden index of an ordered one
itemContent(m, type) ==
    IF type = S("ol")
    THEN S("<span style=\"display:none\" data-md-index=\"") \o m.marker
         \o S("\"></span>") \o m.content
    ELSE m.content

listType(marker) == IF IsOrderedMarker(marker) THEN S("ol") ELSE S("ul")

\* The body of lines.forEach for a line that matched with the groups m
listItem(st, m, type) ==
    [openItem(popDeeper(st, m.indent), m.indent, type) EXCEPT !.html = @ \o itemContent(m, type)]

\* The body of lines.forEach for one line
listLine(st, line) ==
    With(listMatch(line), LAMBDA m :
        IF ~m.found THEN st ELSE listItem(st, m, listType(m.marker)))

RECURSIVE listLines(_, _, _)
listLines(st, lines, i) ==
    IF i > Len(lines) THEN st ELSE listLines(listLine(st, lines[i]), lines, i + 1)

\* closeAll that closes the top frame only
closeTop(st) ==
    IF st.stack = <<>> THEN st
    ELSE [html |-> st.html \o S("</li></") \o st.stack[Len(st.stack)].type \o S(">"),
          stack |-> SubSeq(st.stack, 1, Len(st.stack) - 1)]

\* while (stack.length) pop and close
RECURSIVE closeAll(_)
closeAll(st) ==
    IF st.stack = <<>> THEN st
    ELSE closeAll([html |-> st.html \o S("</li></") \o st.stack[Len(st.stack)].type \o S(">"),
                   stack |-> SubSeq(st.stack, 1, Len(st.stack) - 1)])

SpanOpen == S("<li><span style=\"display:none\" data-md-index=\"")
SpanClose == S("\"></span>")

\* the hidden index that starts at position i: the position of its closing
\* markup, or 0
spanClose(h, i) ==
    IF match(h, i, SpanOpen)
    THEN With(SkipSet(h, i + Len(SpanOpen), Digits), LAMBDA d :
             IF d > i + Len(SpanOpen) /\ match(h, d, SpanClose) THEN d ELSE 0)
    ELSE 0

\* html.replace(/<li><span style="display:none" data-md-index="(\d+)"><\/span>/g,
\*              '<li value="$1">')
RECURSIVE spanToValue(_, _)
spanToValue(h, from) ==
    With(First(from, Len(h), LAMBDA i : spanClose(h, i) # 0), LAMBDA k :
        IF k = 0 THEN From(h, from)
        ELSE With(spanClose(h, k), LAMBDA d :
                 Sub(h, from, k - 1) \o S("<li value=\"") \o Sub(h, k + Len(SpanOpen), d - 1)
                 \o S("\">") \o spanToValue(h, d + Len(SpanClose))))

renderList(block) ==
    spanToValue(closeAll(listLines([html |-> <<>>, stack |-> <<>>],
                                   Split(trimEnd(block), NL), 1)).html, 1)

renderRun(kind, block) ==
    IF kind = "checkbox" THEN renderCheckboxes(block) ELSE renderList(block)

\* md.replace(/((?:^ LINE (?:\n|$))+)/gm, render): the runs from left to right
RECURSIVE replaceRuns(_, _, _)
replaceRuns(kind, s, from) ==
    With(First(from, Len(s), LAMBDA p : lineEnd(kind, s, p) # 0), LAMBDA k :
        IF k = 0 THEN From(s, from)
        ELSE With(runEnd(kind, s, k), LAMBDA e :
                 Sub(s, from, k - 1) \o renderRun(kind, Sub(s, k, e - 1))
                 \o replaceRuns(kind, s, e)))

checkboxLists(text) == replaceRuns("checkbox", text, 1)
nestedLists(text) == replaceRuns("list", text, 1)

-----------------------------------------------------------------------------
(* Inline Formatter: the patterns table *)

Repeat(c, k) == [i \in 1..k |-> c]

\* the heading element of level tag around a text
headingElement(tag, text) == S("<h") \o tag \o S(">") \o text \o S("</h") \o tag \o S(">")

\* [/^#{k} (.*)$/gm, "<hk>$1</hk>"]
RECURSIVE headingFrom(_, _, _)
headingFrom(s, k, from) ==
    With(First(from, Len(s),
               LAMBDA i : AtLineStart(s, i) /\ match(s, i, Repeat("#", k) \o <<" ">>)),
         LAMBDA p :
        IF p = 0 THEN From(s, from)
        ELSE With(DotEnd(s, p + k + 1), LAMBDA e :
                 Sub(s, from, p - 1) \o headingElement(NumStr(k), Sub(s, p + k + 1, e - 1))
                 \o headingFrom(s, k, e)))
heading(s, k) == headingFrom(s, k, 1)

\* /^(-{3,}|\*{3,}|_{3,})$/gm at position p: the position after the match, or 0
ruleEnd(s, p) ==
    IF AtLineStart(s, p) /\ p <= Len(s) /\ s[p] \in {"-", "*", "_"}
    THEN With(SkipSet(s, p, {s[p]}), LAMBDA e :
             IF e - p >= 3 /\ AtLineEnd(s, e) THEN e ELSE 0)
    ELSE 0

RECURSIVE ruleFrom(_, _)
ruleFrom(s, from) ==
    With(First(from, Len(s), LAMBDA i : ruleEnd(s, i) # 0), LAMBDA p :
        IF p = 0 THEN From(s, from)
        ELSE Sub(s, from, p - 1) \o S("<hr>") \o ruleFrom(s, ruleEnd(s, p)))
horizontalRule(s) == ruleFrom(s, 1)

\* /~~(.*?)~~/ at position p: the position of the closing "~~", or 0
delClose(s, p) ==
    IF match(s, p, S("~~"))
    THEN With(IndexFrom(s, S("~~"), p + 2), LAMBDA j :
             IF j # 0 /\ j <= DotEnd(s, p + 2) THEN j ELSE 0)
    ELSE 0

RECURSIVE delFrom(_, _)
delFrom(s, from) ==
    With(First(from, Len(s), LAMBDA i : delClose(s, i) # 0), LAMBDA p :
        IF p = 0 THEN From(s, from)
        ELSE With(delClose(s, p), LAMBDA j :
                 Sub(s, from, p - 1) \o S("<del>") \o Sub(s, p + 2, j - 1) \o S("</del>")
                 \o delFrom(s, j + 2)))
strikethrough(s) == delFrom(s, 1)

\* M(?!c)(.+?)(?<!B)M(?=\W|$) with the marker M = c repeated k times opening at
\* position m and B = c repeated lb times: the position of the closing marker,
\* or 0.  No m flag: "$" is the end of the text.
emClose(s, c, k, lb, m) ==
    IF match(s, m, Repeat(c, k)) /\ ~match(s, m + k, <<c>>)
    THEN First(m + k + 1, Min(DotEnd(s, m + k), Len(s)),
               LAMBDA q : /\ match(s, q, Repeat(c, k))
                          /\ ~match(s, q - lb, Repeat(c, lb))
                          /\ (q + k = Len(s) + 1 \/ s[q + k] \notin WordChars))
    ELSE 0

\* (^|\W) then the rest, at position p: where the opening marker starts, or 0.
\* The alternative "^" (the start of the text, no m flag) is tried first.
emOpen(s, c, k, lb, p) ==
    IF p = 1 /\ emClose(s, c, k, lb, 1) # 0 THEN 1
    ELSE IF p <= Len(s) /\ s[p] \notin WordChars /\ emClose(s, c, k, lb, p + 1) # 0
    THEN p + 1
    ELSE 0

RECURSIVE emFrom(_, _, _, _, _, _, _)
emFrom(s, c, k, lb, open, close, from) ==
    With(First(from, Len(s), LAMBDA i : emOpen(s, c, k, lb, i) # 0), LAMBDA p :
        IF p = 0 THEN From(s, from)
        ELSE With(emOpen(s, c, k, lb, p), LAMBDA m :
             With(emClose(s, c, k, lb, m), LAMBDA q :
                 Sub(s, from, m - 1) \o open \o Sub(s, m + k, q - 1) \o close
                 \o emFrom(s, c, k, lb, open, close, q + k))))
emphasis(s, c, k, lb, open, close) == emFrom(s, c, k, lb, open, close, 1)

\* "<" and a scheme at position p: the position where the rest of the URL
\* starts, or 0
schemeEnd(s, p) ==
    IF match(s, p, S("<https://")) THEN p + 9
    ELSE IF match(s, p, S("<http://")) THEN p + 8
    ELSE IF match(s, p, S("<ftp://")) THEN p + 7
    ELSE 0

\* "[^>\s]+>" from position u: the position of the ">", or 0
urlEnd(s, u, e) == IF u # 0 /\ e > u /\ e <= Len(s) /\ s[e] = ">" THEN e ELSE 0

\* /<((https?|ftp):\/\/[^>\s]+)>/ at position p: the position of the closing ">", or 0
autolinkClose(s, p) ==
    With(schemeEnd(s, p), LAMBDA u :
        urlEnd(s, u, SkipSet(s, u, {ch \in Range(s) : ch \notin WhiteSpace \cup {">"}})))

anchor(url) ==
    S("<a href=\"") \o url \o S("\" target=\"_blank\">") \o url \o S("</a>")

RECURSIVE autolinkFrom(_, _)
autolinkFrom(s, from) ==
    With(First(from, Len(s), LAMBDA i : autolinkClose(s, i) # 0), LAMBDA p :
        IF p = 0 THEN From(s, from)
        ELSE With(autolinkClose(s, p), LAMBDA e :
                 Sub(s, from, p - 1) \o anchor(Sub(s, p + 1, e - 1)) \o autolinkFrom(s, e + 1)))
autolink(s) == autolinkFrom(s, 1)

\* the k-th row of the patterns table applied: md.replace(regex, replacement)
pattern(s, k) ==
    CASE k = 1 -> heading(s, 6)
      [] k = 2 -> heading(s, 5)
      [] k = 3 -> heading(s, 4)
      [] k = 4 -> heading(s, 3)
      [] k = 5 -> heading(s, 2)
      [] k = 6 -> heading(s, 1)
      [] k = 7 -> horizontalRule(s)
      [] k = 8 -> strikethrough(s)
      [] k = 9 -> emphasis(s, "*", 3, 2, S("<strong><em>"), S("</em></strong>"))
      [] k = 10 -> emphasis(s, "_", 3, 3, S("<strong><em>"), S("</em></strong>"))
      [] k = 11 -> emphasis(s, "*", 2, 2, S("<strong>"), S("</strong>"))
      [] k = 12 -> emphasis(s, "_", 2, 2, S("<strong>"), S("</strong>"))
      [] k = 13 -> emphasis(s, "*", 1, 1, S("<em>"), S("</em>"))
      [] k = 14 -> emphasis(s, "_", 1, 1, S("<em>"), S("</em>"))
      [] k = 15 -> autolink(s)

PatternRows == 15

\* for (let [regex, replacement] of patterns) md = md.replace(regex, replacement),
\* from row k on; no row matches in an empty text
RECURSIVE patternsFrom(_, _)
patternsFrom(s, k) ==
    IF s = <<>> \/ k > PatternRows THEN s ELSE patternsFrom(pattern(s, k), k + 1)
patterns(s) == patternsFrom(s, 1)

-----------------------------------------------------------------------------
(* Media/Link Renderer *)

\* no match of a target, or of a bracketed text with its target
noMatch == [found |-> FALSE, text |-> <<>>, src |-> <<>>, title |-> <<>>, end |-> 0]

\* ' +"([^"]+)"\)' after a target s[u..e-1]: t0 is where the spaces end
titledTarget(s, u, e, t0) ==
    IF e > u /\ t0 > e /\ t0 <= Len(s) /\ s[t0] = "\""
    THEN With(First(t0 + 1, Len(s), LAMBDA i : s[i] = "\""), LAMBDA t1 :
             IF t1 > t0 + 1 /\ match(s, t1 + 1, <<")">>)
             THEN [found |-> TRUE, src |-> Sub(s, u, e - 1), title |-> Sub(s, t0 + 1, t1 - 1),
                   end |-> t1 + 2]
             ELSE noMatch)
    ELSE noMatch

\* (\S+?) from position u, the run of \S ending before position e
targetFrom(s, u, e) ==
    With(First(u + 1, Min(e, Len(s)), LAMBDA i : s[i] = ")"), LAMBDA v :
        IF v # 0
        THEN [found |-> TRUE, src |-> Sub(s, u, v - 1), title |-> <<>>, end |-> v + 1]
        ELSE titledTarget(s, u, e, SkipSet(s, e, {" "})))

\* \((\S+?)(?: +"([^"]+)")?\) with "(" at position o: the target, the title
\* and the position after the match
targetMatch(s, o) ==
    IF ~(o <= Len(s) /\ s[o] = "(") THEN noMatch
    ELSE targetFrom(s, o + 1, SkipSet(s, o + 1, {ch \in Range(s) : ch \notin WhiteSpace}))

\* the bracketed text with the target t that follows it
bracketed(text, t) ==
    IF t.found
    THEN [found |-> TRUE, text |-> text, src |-> t.src, title |-> t.title, end |-> t.end]
    ELSE noMatch

\* \[([^\]]*)\] or \[([^\]]+)\] with "[" at position b, then the target
bracketMatch(s, b, minLen) ==
    IF ~(b <= Len(s) /\ s[b] = "[") THEN noMatch
    ELSE With(First(b + 1, Len(s), LAMBDA i : s[i] = "]"), LAMBDA r :
             IF r # 0 /\ r - b - 1 >= minLen
             THEN bracketed(Sub(s, b + 1, r - 1), targetMatch(s, r + 1))
             ELSE noMatch)

titleAttr(title) == IF title = <<>> THEN <<>> ELSE S(" title=\"") \o title \o S("\"")

imageElement(m) ==
    S("<img alt=\"") \o m.text \o S("\" src=\"") \o m.src \o S("\"") \o titleAttr(m.title)
    \o S(" style=\"max-width: 100%;\">")

\* md.replace(/!\[([^\]]*)\]\((\S+?)(?: +"([^"]+)")?\)/g, ...)
RECURSIVE imagesFrom(_, _)
imagesFrom(s, from) ==
    With(First(from, Len(s), LAMBDA i : s[i] = "!" /\ bracketMatch(s, i + 1, 0).found),
         LAMBDA p :
        IF p = 0 THEN From(s, from)
        ELSE With(bracketMatch(s, p + 1, 0), LAMBDA m :
                 Sub(s, from, p - 1) \o imageElement(m) \o imagesFrom(s, m.end)))
images(s) == imagesFrom(s, 1)

linkElement(m) ==
    S("<a href=\"") \o m.src \o S("\"") \o titleAttr(m.title) \o S(" target=\"_blank\">")
    \o m.text \o S("</a>")

\* md.replace(/\[([^\]]+)\]\((\S+?)(?: +"([^"]+)")?\)/g, ...)
RECURSIVE linksFrom(_, _)
linksFrom(s, from) ==
    With(First(from, Len(s), LAMBDA i : bracketMatch(s, i, 1).found), LAMBDA p :
        IF p = 0 THEN From(s, from)
        ELSE With(bracketMatch(s, p, 1), LAMBDA m :
                 Sub(s, from, p - 1) \o linkElement(m) \o linksFrom(s, m.end)))
links(s) == linksFrom(s, 1)

-----------------------------------------------------------------------------
(* Table Renderer *)

\* "\|\n?" with the last pipe of the line at position last: the position after
\* it, or 0 when the line holds no second pipe
afterLastPipe(s, last) == IF last = 0 THEN 0 ELSE afterBreak(s, last + 1)

\* "^\|.*\|\n?" at position p: the position after it, or 0
tableLineEnd(s, p) ==
    IF AtLineStart(s, p) /\ p <= Len(s) /\ s[p] = "|"
    THEN afterLastPipe(s, Last(p + 1, DotEnd(s, p + 1) - 1, LAMBDA i : s[i] = "|"))
    ELSE 0

RECURSIVE tableRunEnd(_, _)
tableRunEnd(s, p) ==
    With(tableLineEnd(s, p), LAMBDA e : IF e = 0 THEN p ELSE tableRunEnd(s, e))

\* /^\|(?:[\s\-:]+\|)+$/.test(line)
isSeparatorRow(line) ==
    /\ Len(line) >= 3
    /\ line[1] = "|"
    /\ line[Len(line)] = "|"
    /\ \A i \in 1..Len(line) : line[i] \in WhiteSpace \cup {"-", ":", "|"}
    /\ \A i \in 1..(Len(line) - 1) : ~(line[i] = "|" /\ line[i + 1] = "|")

\* alignmentOf with the leading-colon test made before the test for both
alignmentLeadingFirst(cell) ==
    IF Sub(trim(cell), 1, 1) = <<":">> THEN S("left")
    ELSE IF Sub(trim(cell), Len(trim(cell)), Len(trim(cell))) = <<":">> THEN S("right")
    ELSE S("left")

\* The alignment of one cell of the separator row: t = cell.trim(), and the
\* tests t.startsWith(":") and t.endsWith(":")
alignmentOf(cell) ==
    IF Sub(trim(cell), 1, 1) = <<":">>
       /\ Sub(trim(cell), Len(trim(cell)), Len(trim(cell))) = <<":">> THEN S("center")
    ELSE IF Sub(trim(cell), 1, 1) = <<":">> THEN S("left")
    ELSE IF Sub(trim(cell), Len(trim(cell)), Len(trim(cell))) = <<":">> THEN S("right")
    ELSE S("left")

\* row.trim().slice(1, -1).split("|")
slicePipes(t) == Split(Sub(t, 2, Len(t) - 1), "|")
rowCells(row) == slicePipes(trim(row))

alignmentsFrom(cells) == [i \in 1..Len(cells) |-> alignmentOf(cells[i])]
alignmentsOf(line) == alignmentsFrom(rowCells(line))

cellElement(tag, alignment, text) ==
    S("<") \o tag \o S(" style=\"text-align:") \o alignment \o S(";\">") \o text
    \o S("</") \o tag \o S(">")

rowElement(cells, tag, alignments) ==
    S("<tr>")
    \o Flat([i \in 1..Len(cells) |->
               cellElement(tag, IF i <= Len(alignments) THEN alignments[i] ELSE S("left"),
                           trim(cells[i]))])
    \o S("</tr>")
renderRow(row, tag, alignments) == rowElement(rowCells(row), tag, alignments)

tableElement(lines, alignments) ==
    S("<table><thead>") \o renderRow(lines[1], S("th"), alignments) \o S("</thead><tbody>")
    \o Flat([i \in 1..(Len(lines) - 2) |-> renderRow(lines[i + 2], S("td"), alignments)])
    \o S("</tbody></table>")

tableOf(block, lines) ==
    IF Len(lines) < 2 \/ ~isSeparatorRow(lines[2]) THEN block
    ELSE tableElement(lines, alignmentsOf(lines[2]))
renderTable(block) == tableOf(block, Split(trim(block), NL))

\* md.replace(/((?:^\|.*\|\n?)+)/gm, ...)
RECURSIVE tablesFrom(_, _)
tablesFrom(s, from) ==
    With(First(from, Len(s), LAMBDA p : tableLineEnd(s, p) # 0), LAMBDA k :
        IF k = 0 THEN From(s, from)
        ELSE With(tableRunEnd(s, k), LAMBDA e :
                 Sub(s, from, k - 1) \o renderTable(Sub(s, k, e - 1)) \o tablesFrom(s, e)))
tables(s) == tablesFrom(s, 1)

-----------------------------------------------------------------------------
(* Paragraph Assembler *)

\* isHtmlTagLike that recognises no line
noLineTagLike(line) == FALSE

\* "[\w\-]*(\s[^>]*)?>" at position e of t, where the name of the tag ends
tagCloses(t, e) ==
    /\ e <= Len(t)
    /\ \/ t[e] = ">"
       \/ t[e] \in WhiteSpace /\ \E i \in (e + 1)..Len(t) : t[i] = ">"

\* /^<\/?[a-zA-Z][\w\-]*(\s[^>]*)?>/ on t, the name of the tag at position a
tagAt(t, a) ==
    /\ match(t, 1, <<"<">>)
    /\ a <= Len(t) /\ t[a] \in Letters
    /\ tagCloses(t, SkipSet(t, a + 1, WordChars \cup {"-"}))

tagLike(t) == tagAt(t, IF match(t, 2, <<"/">>) THEN 3 ELSE 2)

\* /^<\/?[a-zA-Z][\w\-]*(\s[^>]*)?>/.test(line.trim())
isHtmlTagLike(line) == tagLike(trim(line))

\* flush(): the paragraph buffer joined with <br> and wrapped, when not empty
flush(st) ==
    [result |-> IF st.paragraph # <<>>
                THEN Append(st.result, S("<p>") \o Join(st.paragraph, S("<br>")) \o S("</p>"))
                ELSE st.result,
     paragraph |-> <<>>]

\* the body of the loop over the lines, for a line that trims to trimmed
paragraphItem(st, trimmed) ==
    IF trimmed = <<>> THEN flush(st)
    ELSE IF IndexOf(trimmed, S("<!--codeblock_")) = 1 \/ isHtmlTagLike(trimmed)
    THEN [flush(st) EXCEPT !.result = Append(@, trimmed)]
    ELSE [st EXCEPT !.paragraph = Append(@, trimmed)]

paragraphLine(st, line) == paragraphItem(st, trim(line))

RECURSIVE paragraphLines(_, _, _)
paragraphLines(st, splitted, i) ==
    IF i > Len(splitted) THEN st
    ELSE paragraphLines(paragraphLine(st, splitted[i]), splitted, i + 1)

paragraphs(text) ==
    Join(flush(paragraphLines([result |-> <<>>, paragraph |-> <<>>], Split(text, NL), 1)).result,
         <<NL>>)

-----------------------------------------------------------------------------
(* Reassembler *)

RECURSIVE restoreCodeBlocks(_, _, _)
restoreCodeBlocks(h, blocks, i) ==
    IF i > Len(blocks) THEN h
    ELSE restoreCodeBlocks(replaceFirst(h, blocks[i].placeholder, blocks[i].html), blocks, i + 1)

RECURSIVE restoreInlineCode(_, _, _)
restoreInlineCode(h, blocks, i) ==
    IF i > Len(blocks) THEN h
    ELSE restoreInlineCode(
             replaceFirst(h, blocks[i].placeholder,
                          S("<code>") \o escapeHtml(blocks[i].code) \o S("</code>")),
             blocks, i + 1)

RECURSIVE restoreEscaped(_, _, _)
restoreEscaped(h, table, i) ==
    IF i > Len(table) THEN h
    ELSE restoreEscaped(replaceFirst(h, table[i].placeholder, <<table[i].ch>>), table, i + 1)

-----------------------------------------------------------------------------
(* Blockquote Renderer *)

GT == S("&gt;")

\* "&gt; ?.*(?:\n|$)" or "(?!(&gt;|<|\n|$)).*(?:\n|$)" at position p: the
\* position after it, or 0
quoteLineEnd(s, p) ==
    IF match(s, p, GT) THEN afterBreak(s, DotEnd(s, p + 4))
    ELSE IF p <= Len(s) /\ s[p] # "<" /\ ~AtLineEnd(s, p) THEN afterBreak(s, DotEnd(s, p))
    ELSE 0

RECURSIVE quoteRunEnd(_, _)
quoteRunEnd(s, p) ==
    With(quoteLineEnd(s, p), LAMBDA e : IF e = 0 \/ e = p THEN p ELSE quoteRunEnd(s, e))

\* the end of ((?:&gt;\s?)+) from position p of the line
RECURSIVE arrowsEnd(_, _)
arrowsEnd(line, p) ==
    IF match(line, p, GT)
    THEN arrowsEnd(line, IF p + 4 <= Len(line) /\ line[p + 4] \in WhiteSpace
                         THEN p + 5 ELSE p + 4)
    ELSE p

\* (arrows.match(/&gt;/g) || []).length
arrowCount(arrows) == Cardinality({i \in 1..Len(arrows) : match(arrows, i, GT)})

\* quoteItem that keeps the markers of a quoted line in its content
quoteItemWhole(line) ==
    With(arrowsEnd(line, 1), LAMBDA e :
        IF e > 1 /\ DotEnd(line, e) = Len(line) + 1
        THEN [level |-> arrowCount(Sub(line, 1, e - 1)),
              content |-> trimStart(line), isQuote |-> TRUE]
        ELSE [level |-> 0, content |-> line, isQuote |-> FALSE])

\* line.match(/^((?:&gt;\s?)+)(.*)$/) and the record built from it
quoteItem(line) ==
    With(arrowsEnd(line, 1), LAMBDA e :
        IF e > 1 /\ DotEnd(line, e) = Len(line) + 1
        THEN [level |-> arrowCount(Sub(line, 1, e - 1)),
              content |-> trimStart(From(line, e)), isQuote |-> TRUE]
        ELSE [level |-> 0, content |-> line, isQuote |-> FALSE])

quoteItemsOf(lines) == [i \in 1..Len(lines) |-> quoteItem(lines[i])]
quoteItems(raw) == quoteItemsOf(Split(trimEnd(raw), NL))

\* nestedEnd that ends the nested run at a line that is no quote only
nestedEndAtContinuation(items, i, l) ==
    OrElse(First(i + 1, Len(items), LAMBDA k : ~items[k].isQuote), Len(items) + 1)

\* the end of the nested run that starts at item i: the first later item that
\* is no quote or has a level below l, or Len(items) + 1
nestedEnd(items, i, l) ==
    OrElse(First(i + 1, Len(items), LAMBDA k : ~items[k].isQuote \/ items[k].level < l),
           Len(items) + 1)

\* nestedHtml with its whitespace removed is an empty blockquote
rendersEmpty(stripped) ==
    \/ stripped = S("<blockquote>") \o S("</blockquote>")
    \/ stripped = S("<blockquote>") \o S("<br>") \o S("</blockquote>")

\* what a nested blockquote that renders empty degrades to
collapseEmpty(nestedHtml) ==
    IF rendersEmpty(SelectSeq(nestedHtml, LAMBDA c : c \notin WhiteSpace))
    THEN S("<br>") ELSE nestedHtml

\* nestedLevel that descends one level at a time: renderQuote(nested, level + 1)
nestedLevelNext(item, level) == level + 1

\* The level at which a nested run is rendered: renderQuote(nested, l)
nestedLevel(item, level) == item.level

\* The nested calls of markdownToHtml are activations of their own.  The
\* renderer below takes the values that the calls made so far have returned
\* (returned, in call order), and yields the arguments of the calls it makes
\* (calls, in call order) with the markup; a call that has not returned yet
\* stands for the empty string.
\* result.push(markdownToHtml(content))
pushCall(acc, content, returned) ==
    [result |-> Append(acc.result, IF Len(acc.calls) < Len(returned)
                                   THEN returned[Len(acc.calls) + 1] ELSE <<>>),
     calls |-> Append(acc.calls, content)]

\* result.push of the rendering r of a nested run, collapsed when it is empty
pushNested(acc, r) ==
    [result |-> Append(acc.result, collapseEmpty(r.html)), calls |-> r.calls]

RECURSIVE renderQuoteFrom(_, _, _, _, _)
RECURSIVE blockquotesFrom(_, _, _, _)

\* renderQuote(items, level) from item i on, with the result array so far
renderQuoteFrom(items, level, i, acc, returned) ==
    IF i > Len(items)
    THEN [html |-> S("<blockquote>") \o Join(acc.result, <<NL>>) \o S("</blockquote>"),
          calls |-> acc.calls]
    ELSE IF ~items[i].isQuote \/ (items[i].level = level /\ items[i].content # <<>>)
    THEN renderQuoteFrom(items, level, i + 1, pushCall(acc, items[i].content, returned),
                         returned)
    ELSE IF items[i].level = level
    THEN renderQuoteFrom(items, level, i + 1, [acc EXCEPT !.result = Append(@, S("<br>"))],
                         returned)
    ELSE IF items[i].level > level
    THEN With(nestedEnd(items, i, items[i].level), LAMBDA j :
             renderQuoteFrom(items, level, j,
                 pushNested(acc,
                     renderQuoteFrom(SubSeq(items, i, j - 1), nestedLevel(items[i], level), 1,
                                     [result |-> <<>>, calls |-> acc.calls], returned)),
                 returned))
    ELSE renderQuoteFrom(items, level, i + 1, acc, returned)

renderQuote(items, level, calls, returned) ==
    renderQuoteFrom(items, level, 1, [result |-> <<>>, calls |-> calls], returned)

\* the quote run at position k replaced by its rendering r, after the text
\* before it and before the rest of the text with its own runs replaced
quoteRun(s, from, k, r, returned) ==
    With(blockquotesFrom(s, k + r.len, r.calls, returned), LAMBDA rest :
        [md |-> Sub(s, from, k - 1) \o r.html \o rest.md, calls |-> rest.calls])

\* the rendering of the quote run s[k..e-1], and the length of the run
quoteRendering(s, k, e, calls, returned) ==
    [len |-> e - k] @@ renderQuote(quoteItems(Sub(s, k, e - 1)), 1, calls, returned)

\* the quote run that starts at position k replaced, when there is one
quoteRunAt(s, from, k, calls, returned) ==
    IF k = 0 THEN [md |-> From(s, from), calls |-> calls]
    ELSE quoteRun(s, from, k, quoteRendering(s, k, quoteRunEnd(s, k), calls, returned),
                  returned)

\* md.replace(/^((&gt; ?.*(?:\n|$))+((?!(&gt;|<|\n|$)).*(?:\n|$))*)+/gm, ...)
blockquotesFrom(s, from, calls, returned) ==
    quoteRunAt(s, from,
               First(from, Len(s), LAMBDA p : AtLineStart(s, p) /\ match(s, p, GT)),
               calls, returned)
blockquotes(s, returned) == blockquotesFrom(s, 1, <<>>, returned)

-----------------------------------------------------------------------------
(* The passes of markdownToHtml on an activation *)

\* The activation of a call: the buffer md, the tables and the counters, the
\* output html, the values returned by the nested calls of the blockquote
\* pass and the arguments of its calls; threw when an exception left the call.
newFrame(src, returned) ==
    [md |-> src, html |-> <<>>, escapePlaceholders |-> <<>>, codeBlocks |-> <<>>,
     inlineCodeBlocks |-> <<>>, escapeIndex |-> 0, codeIndex |-> 0, inlineIndex |-> 0,
     results |-> returned, calls |-> <<>>, threw |-> FALSE]

LastPass == 15

\* Pass k of the function body, in source order.  The blockquote pass leaves
\* the buffer as it found it while a call that it makes has not returned.
pass(f, k) ==
    CASE k = 1 ->    \* Escaper
           With(Escaper(f.md, f.escapePlaceholders, f.escapeIndex), LAMBDA e :
               [f EXCEPT !.md = e.md, !.escapePlaceholders = e.escapePlaceholders,
                         !.escapeIndex = e.escapeIndex])
      [] k = 2 ->    \* md = parseBackticks(md);
           With(parseBackticks(f.md, f.escapePlaceholders, f.codeBlocks,
                               f.inlineCodeBlocks, f.codeIndex, f.inlineIndex), LAMBDA t :
               IF t.threw THEN [f EXCEPT !.threw = TRUE]
               ELSE [f EXCEPT !.md = t.out, !.codeBlocks = t.codeBlocks,
                              !.inlineCodeBlocks = t.inlineCodeBlocks,
                              !.codeIndex = t.codeIndex, !.inlineIndex = t.inlineIndex])
      [] k = 3 -> [f EXCEPT !.md = trimIndentation(@)]
      [] k = 4 -> [f EXCEPT !.md = checkboxLists(@)]
      [] k = 5 -> [f EXCEPT !.md = nestedLists(@)]
      [] k = 6 -> [f EXCEPT !.md = patterns(@)]
      [] k = 7 -> [f EXCEPT !.md = images(@)]
      [] k = 8 -> [f EXCEPT !.md = links(@)]
      [] k = 9 ->    \* Blockquotes
           With(blockquotes(f.md, f.results), LAMBDA q :
               IF Len(f.results) < Len(q.calls) THEN [f EXCEPT !.calls = q.calls]
               ELSE [f EXCEPT !.md = q.md, !.calls = q.calls])
      [] k = 10 -> [f EXCEPT !.md = tables(@)]
      [] k = 11 -> [f EXCEPT !.html = paragraphs(f.md)]
      [] k = 12 -> [f EXCEPT !.html = restoreCodeBlocks(@, f.codeBlocks, 1)]
      [] k = 13 -> [f EXCEPT !.html = restoreInlineCode(@, f.inlineCodeBlocks, 1)]
      [] k = 14 -> [f EXCEPT !.html = restoreEscaped(@, f.escapePlaceholders, 1)]
      [] k = 15 -> [f EXCEPT !.html = trim(@)]    \* return html.trim();

\* the passes from pass k on, until one throws
RECURSIVE passesFrom(_, _)
passesFrom(f, k) == IF f.threw \/ k > LastPass THEN f ELSE passesFrom(pass(f, k), k + 1)

\* The whole body of markdownToHtml on a fresh activation, given the values
\* that its nested calls return
markdownToHtml(src, returned) == passesFrom(newFrame(src, returned), 1)

-----------------------------------------------------------------------------
(* The document of the host page *)

\* The nodes of the page are the records of a store, a node's id its index:
\* the tag, the attributes (name and value, in order), the children (each
\* a character of text or of markup that no selector looks at, or the id
\* of an element) and the parent (0 for none).  Node 1 is the body.
Body == 1
charItems(s) == [i \in 1..Len(s) |-> [c |-> s[i], id |-> 0]]
elementItem(id) == [c |-> "", id |-> id]

\* the tags that the store keeps as elements
ElementTags == {S("markdown"), S("md"), S("text"), S("div")}

\* document.createElement(tag): the new node is the last of the store
createElement(ns, tag) ==
    Append(ns, [tag |-> tag, attrs |-> <<>>, kids |-> <<>>, parent |-> 0])

\* parent.appendChild(node) for a node without a parent
appendChild(ns, parent, id) ==
    [ns EXCEPT ![parent].kids = Append(@, elementItem(id)), ![id].parent = parent]

\* the text s appended to the children of a node
appendText(ns, parent, s) == [ns EXCEPT ![parent].kids = @ \o charItems(s)]

\* el.setAttribute(name, value): the value of the attribute of that name,
\* or a new attribute after the others
setAttribute(attrs, name, value) ==
    IF \E i \in 1..Len(attrs) : attrs[i].name = name
    THEN [i \in 1..Len(attrs) |->
             IF attrs[i].name = name THEN [name |-> name, value |-> value] ELSE attrs[i]]
    ELSE Append(attrs, [name |-> name, value |-> value])

\* el.getAttribute(name), the empty string for none
getAttribute(attrs, name) ==
    With(First(1, Len(attrs), LAMBDA i : attrs[i].name = name), LAMBDA i :
        IF i = 0 THEN <<>> ELSE attrs[i].value)

\* the attributes as the serialization writes them
attrsText(attrs) ==
    Flat([i \in 1..Len(attrs) |->
             S(" ") \o attrs[i].name \o S("=\"") \o attrs[i].value \o S("\"")])

\* el.innerHTML and el.outerHTML read: the serialization of the children
RECURSIVE innerHTML(_, _)
RECURSIVE outerHTML(_, _)
innerHTML(ns, id) ==
    Flat([k \in 1..Len(ns[id].kids) |->
             IF ns[id].kids[k].id = 0 THEN <<ns[id].kids[k].c>>
             ELSE outerHTML(ns, ns[id].kids[k].id)])
outerHTML(ns, id) ==
    S("<") \o ns[id].tag \o attrsText(ns[id].attrs) \o S(">") \o innerHTML(ns, id)
    \o S("</") \o ns[id].tag \o S(">")

\* The parser of markup.  The attributes of a start tag from position a,
\* each written as a space, a name, ="value": the attributes and the
\* position after the ">" of the tag
RECURSIVE parseAttrs(_, _, _)
parseAttrs(s, a, attrs) ==
    IF a > Len(s) THEN [attrs |-> attrs, end |-> a]
    ELSE IF s[a] # " " THEN [attrs |-> attrs, end |-> a + 1]
    ELSE With(IndexFrom(s, S("=\""), a), LAMBDA e :
         With(IndexFrom(s, S("\""), e + 2), LAMBDA q :
             parseAttrs(s, q + 1,
                        setAttribute(attrs, Sub(s, a + 1, e - 1), Sub(s, e + 2, q - 1)))))

\* the tag of the start tag of an element at position p of s, or <<>>
startTagAt(s, p) ==
    With({t \in ElementTags : match(s, p, S("<") \o t)
                              /\ (match(s, p + 1 + Len(t), S(">"))
                                  \/ match(s, p + 1 + Len(t), S(" ")))},
         LAMBDA tags : IF tags = {} THEN <<>> ELSE CHOOSE t \in tags : TRUE)

\* the end tag of the open element at position p of s
endTagAt(s, p, open) == open # <<>> /\ match(s, p, S("</") \o open \o S(">"))

\* The markup s from position p parsed into children of the node into,
\* until the end tag of the open element (none when open is empty): the
\* store and the position after what was parsed
RECURSIVE parseInto(_, _, _, _, _)
parseElement(ns, into, s, p, tag, open) ==
    With(parseAttrs(s, p + 1 + Len(tag), <<>>), LAMBDA t :
    With(parseInto([appendChild(createElement(ns, tag), into, Len(ns) + 1)
                       EXCEPT ![Len(ns) + 1].attrs = t.attrs],
                   Len(ns) + 1, s, t.end, tag), LAMBDA r :
        parseInto(r.ns, into, s, r.next, open)))
parseInto(ns, into, s, p, open) ==
    With(First(p, Len(s), LAMBDA q : endTagAt(s, q, open) \/ startTagAt(s, q) # <<>>),
         LAMBDA k :
        IF k = 0 THEN [ns |-> appendText(ns, into, From(s, p)), next |-> Len(s) + 1]
        ELSE IF endTagAt(s, k, open)
        THEN [ns |-> appendText(ns, into, Sub(s, p, k - 1)), next |-> k + Len(open) + 3]
        ELSE parseElement(appendText(ns, into, Sub(s, p, k - 1)), into, s, k,
                          startTagAt(s, k), open))

\* el.innerHTML = html, for an element that has no children yet
setInnerHTML(ns, id, markup) == parseInto(ns, id, markup, 1, <<>>).ns

\* el.replaceWith(node): the node takes the place of el under the parent of
\* el; nothing happens when el has no parent
replaceWith(ns, el, node) ==
    IF ns[el].parent = 0 THEN ns
    ELSE [ns EXCEPT ![ns[el].parent].kids =
                        [k \in 1..Len(@) |-> IF @[k].id = el THEN elementItem(node) ELSE @[k]],
                    ![node].parent = ns[el].parent,
                    ![el].parent = 0]

\* the elements under a node, in document order
RECURSIVE descendants(_, _)
descendants(ns, id) ==
    Flat([k \in 1..Len(ns[id].kids) |->
             IF ns[id].kids[k].id = 0 THEN <<>>
             ELSE <<ns[id].kids[k].id>> \o descendants(ns, ns[id].kids[k].id)])

\* the node is in the page: under the body
RECURSIVE isConnected(_, _)
isConnected(ns, id) ==
    id = Body \/ (ns[id].parent # 0 /\ isConnected(ns, ns[id].parent))

-----------------------------------------------------------------------------
(* Bounds *)

\* conversions a client makes one after the other
MaxCalls == 3
\* nested activations of markdownToHtml the engine's call stack can hold
CallStackCapacity == 3
\* quote markers on one line
MaxQuoteLevel == 4
\* lines of a list run, and the widest indentation of a list line
MaxListLines == 3
MaxIndent == 2
\* lines of a checkbox run
MaxBoxLines == 2
\* characters of a code payload and of a line of prose
MaxCodeLen == 2
MaxProseLen == 3
\* lines of the content of a fenced block
MaxFenceLines == 2
\* loads of the script, elements that page scripts add, and calls of
\* renderAllMarkdownTags that page scripts make
\* the longest text after an opener that nothing closes
MaxOpenLen == 2
\* the deepest level of a quoted line before a continuation line
MaxContinuedLevel == 3
\* the lines of a quote block, and the deepest level of one of them
MaxBlockLines == 3
MaxBlockLevel == 3
MaxLoads == 2
MaxAdded == 1
MaxRenderCalls == 1

-----------------------------------------------------------------------------
(* Inputs *)

Lines(ss) == Join(ss, <<NL>>)
Times(s, k) == Flat([i \in 1..k |-> s])
\* every string over an alphabet with a to b characters
Strings(alphabet, a, b) == UNION {[1..k -> alphabet] : k \in a..b}
\* every sequence of a to b members of a set
Runs(set, a, b) == UNION {[1..k -> set] : k \in a..b}

\* The documented examples
Scenarios ==
    {S("**bold** _em_"), S("&gt; x\n&gt;&gt;&gt; a"), S("- [x] a\n- [ ] b"),
     S("|a|b|\n|:---|---:|\n|1|2|"), S("^^^js\nconsole.log(1)\n^^^"),
     S("# Title\n\npara **b**\n\n- i1\n- i2\n\n---\n[l](u) ![i](s)")}

\* Malformed markdown: unterminated fences and spans, invalid tables,
\* unmatched list and quote markers
Malformed ==
    {S("^^^"), S("^^^js\nx"), S("^a"), S("^^a^b"), S("a ^^^ b ^^ c ^ d"),
     S("|a|b|\n|x|---|"), S("|a|"), S("|a|b|\n|---|"), S("- "), S("1."), S("  - a\n- b\n    - c"),
     S("&gt;"), S("&gt;&gt;\n&gt;"), S("[l]("), S("![i]"), S("**a"), S("~~a"), S(""),
     S("  \n \t "), S("\\"), S("<http://x"), S("- [x]"), S("&gt; a\nb\n\n&gt;&gt;")}

\* A quote whose content is again a quote, k times: each marker is followed
\* by two spaces, so that the line's content starts with the next marker
QuoteChain(k) == Times(S("&gt;  "), k) \o S("x")
\* A line under a level-1 quote that carries k markers
QuoteStep(k) == S("&gt; x\n") \o Times(S("&gt;"), k) \o S(" a")
QuoteInputs ==
    {QuoteChain(k) : k \in 1..MaxQuoteLevel} \cup {QuoteStep(k) : k \in 1..MaxQuoteLevel}

\* \X for every X of the escape set, in prose, at a line start, in an inline
\* code span and in a fenced block
EscapeContexts == {"prose", "linestart", "inline", "fenced"}
Escaped(ctx, X) ==
    CASE ctx = "prose"     -> <<"a", "\\", X, "b">>
      [] ctx = "linestart" -> <<"\\", X, " ", "b">>
      [] ctx = "inline"    -> <<BT, "a", "\\", X, "b", BT>>
      [] ctx = "fenced"    -> <<BT, BT, BT, NL, "a", "\\", X, "b", NL, BT, BT, BT>>
EscapeInputs == {Escaped(ctx, X) : ctx \in EscapeContexts, X \in EscapeSet}

\* A payload in a single-backquote span, a double-backquote span and a
\* fenced block, with prose around it
CodeAlphabet == {"a", "*", "_", "$", "&", "<", "#"}
CodePayloads == Strings(CodeAlphabet, 1, MaxCodeLen)
Containers == {"single", "double", "fenced"}
Contained(kind, payload) ==
    CASE kind = "single" -> S("p ") \o <<BT>> \o payload \o <<BT>> \o S(" q")
      [] kind = "double" -> S("p ") \o <<BT, BT>> \o payload \o <<BT, BT>> \o S(" q")
      [] kind = "fenced" -> <<BT, BT, BT, NL>> \o payload \o <<NL, BT, BT, BT>>
CodeInputs == {Contained(kind, payload) : kind \in Containers, payload \in CodePayloads}

\* One paragraph of prose: no markdown syntax, no blank line
ProseAlphabet == {"a", "b", " ", ",", ".", "'", NL}
PlainProse(p) ==
    /\ p # <<>>
    /\ Range(p) \subseteq ProseAlphabet
    /\ \A l \in Range(Split(p, NL)) : trim(l) # <<>>
ProseInputs == {p \in Strings(ProseAlphabet, 1, MaxProseLen) : PlainProse(p)}

\* List runs: every line is an indentation, a marker and one capital letter
ListMarkers == {S("-"), S("1.")}
ItemLetters == S("ABCDEFGH")
ListLine(w, marker, k) == Times(<<" ">>, w) \o marker \o <<" ", ItemLetters[k]>>
ListShapes == Runs((0..MaxIndent) \X ListMarkers, 1, MaxListLines)
ListRun(shape) == Lines([k \in 1..Len(shape) |-> ListLine(shape[k][1], shape[k][2], k)])
ListInputs == {ListRun(shape) : shape \in ListShapes}

\* Checkbox runs: every line is a bullet, a box and a content
BoxBullets == {"-", "*"}
BoxMarks == {" ", "x", "X"}
BoxContents == {S("a"), S("b [x]"), S("[X] c")}
BoxLine(bullet, mark, content) == <<bullet, " ", "[", mark, "]", " ">> \o content
BoxShapes == Runs(BoxBullets \X BoxMarks \X BoxContents, 1, MaxBoxLines)
BoxRun(shape) ==
    Lines([k \in 1..Len(shape) |-> BoxLine(shape[k][1], shape[k][2], shape[k][3])])
BoxInputs == {BoxRun(shape) : shape \in BoxShapes}

\* Mixed blocks: contiguous lines, each a checkbox line, checked or not, a
\* bullet line or a numbered line, holding one capital letter
MixedKinds == {"checked", "unchecked", "bullet", "numbered"}
MixedLine(kind, k) ==
    CASE kind = "checked"   -> S("- [x] ") \o <<ItemLetters[k]>>
      [] kind = "unchecked" -> S("- [ ] ") \o <<ItemLetters[k]>>
      [] kind = "bullet"    -> S("- ") \o <<ItemLetters[k]>>
      [] kind = "numbered"  -> S("1. ") \o <<ItemLetters[k]>>
MixedShapes == Runs(MixedKinds, 1, MaxListLines)
MixedBlock(shape) == Lines([k \in 1..Len(shape) |-> MixedLine(shape[k], k)])
MixedInputs == {MixedBlock(shape) : shape \in MixedShapes}

\* Quotes with a continuation line: one or two quoted lines of levels 1 to
\* MaxContinuedLevel holding A and B, the line Z without a marker, and then
\* nothing or one more quoted line
QuotedLine(level, k) == Times(GT, level) \o <<" ", ItemLetters[k]>>
ContinuedLevels == Runs(1..MaxContinuedLevel, 1, 2)
ContinuedTails == {<<>>, <<NL>> \o QuotedLine(1, 4)}
Continued(levels, tail) ==
    Lines([k \in 1..Len(levels) |-> QuotedLine(levels[k], k)]) \o <<NL, "Z">> \o tail
ContinuedInputs ==
    {Continued(levels, tail) : levels \in ContinuedLevels, tail \in ContinuedTails}

\* Protected texts: an escaped star, a span, a fenced block, a span that
\* holds an escaped star and a span that holds $&, each in prose, in a
\* heading, in a list item, in a quote, in a table cell, in strong emphasis,
\* in the text of a link and in an autolink
ProtectedKinds == {"escape", "span", "fence", "escape in span", "dollar in span"}
Protected(kind) ==
    CASE kind = "escape"         -> S("\\*")
      [] kind = "span"           -> S("^q^")
      [] kind = "fence"          -> S("^^^\nf\n^^^")
      [] kind = "escape in span" -> S("^q\\*^")
      [] kind = "dollar in span" -> S("^$&^")
ProtectedContexts ==
    {"prose", "heading", "item", "quote", "cell", "strong", "link", "autolink"}
InContext(ctx, P) ==
    CASE ctx = "prose"    -> S("a ") \o P \o S(" b")
      [] ctx = "heading"  -> S("# a ") \o P
      [] ctx = "item"     -> S("- a ") \o P
      [] ctx = "quote"    -> S("&gt; a ") \o P
      [] ctx = "cell"     -> S("|a ") \o P \o S("|b|\n|---|---|\n|1|2|")
      [] ctx = "strong"   -> S("**a ") \o P \o S("**")
      [] ctx = "link"     -> S("[a ") \o P \o S("](u)")
      [] ctx = "autolink" -> S("<http://x") \o P \o S(">")
ProtectedInputs ==
    {InContext(ctx, Protected(kind)) : ctx \in ProtectedContexts, kind \in ProtectedKinds}

\* Quoted lines that hold a marker in the middle of the line
MidLineMarkers == {S("&gt; A\na &gt; B"), S("&gt; &gt;A\n&gt;B &gt; C"), S("&gt; A\n  &gt; B")}

\* Quote blocks: up to MaxBlockLines lines, each a quoted line of a level up
\* to MaxBlockLevel that holds a capital letter, a quoted line of level 1 or
\* 2 that holds nothing, or, after the first line, a line without a marker
BlockLineKinds ==
    ({"letter"} \X (1..MaxBlockLevel)) \cup ({"empty"} \X {1, 2}) \cup {<<"continuation", 0>>}
BlockShapes ==
    {shape \in Runs(BlockLineKinds, 1, MaxBlockLines) : shape[1][1] # "continuation"}
BlockLine(kind, k) ==
    CASE kind[1] = "letter"       -> QuotedLine(kind[2], k)
      [] kind[1] = "empty"        -> Times(GT, kind[2])
      [] kind[1] = "continuation" -> <<ItemLetters[k]>>
QuoteBlock(shape) == Lines([k \in 1..Len(shape) |-> BlockLine(shape[k], k)])
QuoteBlockInputs == {QuoteBlock(shape) : shape \in BlockShapes}

\* Pipe tables: a two-column header, a separator row of two cells, body rows
SeparatorCells ==
    {S("---"), S(":---"), S("---:"), S(":-:"), S(" :--: "), S(":"), S("-"), S(" - : ")}
BodyRows == {<<>>, <<S("|1|2|")>>, <<S("|1|2|"), S("| 3 | 4 |")>>, <<S("|1|2|3|"), S("|4|")>>}
Table(c1, c2, body) ==
    Lines(<<S("|h|k|"), S("|") \o c1 \o S("|") \o c2 \o S("|")>> \o body)
TableInputs ==
    {Table(c1, c2, body) : c1 \in SeparatorCells, c2 \in SeparatorCells, body \in BodyRows}

\* Fenced blocks: a language tag or none, and lines of content that are
\* blank or hold an indentation and one character
FenceTags == {<<>>, S("js")}
FenceLines ==
    {<<>>, <<" ">>} \cup {Times(<<" ">>, w) \o <<c>> : w \in 0..MaxIndent, c \in {"a", "<", "&"}}
Fence(tag, lines) == <<BT, BT, BT>> \o tag \o <<NL>> \o Lines(lines) \o <<NL, BT, BT, BT>>
FenceInputs ==
    {Fence(tag, lines) : tag \in FenceTags, lines \in Runs(FenceLines, 1, MaxFenceLines)}
    \cup {S("^^^js\nconsole.log(1)\n^^^")}

\* Openers that nothing closes: a single backquote, two backquotes, a fence
\* and a fence with a language tag, after prose or a closed span, followed
\* to the end of the input by a text that holds no closer of that opener
OpenKinds == {"single", "double", "fence", "fence js"}
OpenPrefixes == {<<>>, S("p "), S("^a^ ")}
Opener(kind) ==
    CASE kind = "single"   -> <<BT>>
      [] kind = "double"   -> <<BT, BT>>
      [] kind = "fence"    -> <<BT, BT, BT, NL>>
      [] kind = "fence js" -> <<BT, BT, BT>> \o S("js") \o <<NL>>
OpenPayloads(kind) ==
    {t \in Strings({"a", " ", NL, BT, "<"}, 0, MaxOpenLen) :
        CASE kind = "single" -> BT \notin Range(t)
          [] kind = "double" -> (t = <<>> \/ t[1] # BT) /\ IndexOf(t, <<BT, BT>>) = 0
          [] OTHER           -> IndexOf(t, <<BT, BT, BT>>) = 0}
Unterminated(prefix, kind, payload) == prefix \o Opener(kind) \o payload
OpenInputs ==
    UNION {{Unterminated(prefix, kind, payload) :
               prefix \in OpenPrefixes, payload \in OpenPayloads(kind)} : kind \in OpenKinds}

\* Pages: the markup of the body, with markdown elements that are siblings,
\* that carry attributes, that lie in a container, that are nested in one
\* another, and one whose quotes are deeper than the call stack holds
HostPages ==
    {S("<md>a</md>"),
     S("<md id=\"k\">*a*</md>x<markdown>b</markdown>"),
     S("<text type=\"md\" id=\"k\">a</text><text>b</text>"),
     S("<div><md>a</md></div><md>b</md>"),
     S("<md>a<md>b</md></md>"),
     S("<md>a<markdown>b</markdown></md>"),
     S("<md>") \o QuoteChain(CallStackCapacity) \o S("</md><md>a</md>")}
\* what a page script puts in an element that it adds
AddedContents == {S("# Hello from JS"), S("b")}

\* What a later call of a client converts: a text that fills all three
\* placeholder tables, or the value the last call returned
Filler == S("^q^ \\# ^^^\nf\n^^^")

-----------------------------------------------------------------------------
(* The host: markdown elements rendered in place *)

MARKDOWN_SELECTORS ==
    <<[tag |-> S("text"), type |-> S("text/markdown")],
      [tag |-> S("text"), type |-> S("text/md")],
      [tag |-> S("text"), type |-> S("markdown")],
      [tag |-> S("text"), type |-> S("md")],
      [tag |-> S("markdown"), type |-> <<>>],
      [tag |-> S("md"), type |-> <<>>]>>

\* el.matches(sel) for a selector of the list
matches(node, sel) ==
    node.tag = sel.tag
    /\ (sel.type = <<>> \/ getAttribute(node.attrs, S("type")) = sel.type)
matchesMarkdown(node) ==
    \E k \in 1..Len(MARKDOWN_SELECTORS) : matches(node, MARKDOWN_SELECTORS[k])

\* [].slice.call(root.querySelectorAll(sel))
querySelectorAll(ns, root, sel) ==
    SelectSeq(descendants(ns, root), LAMBDA id : matches(ns[id], sel))

\* MARKDOWN_SELECTORS.flatMap(...): the matches of the first selector, then
\* of the second, and so on
markdownElements(ns, root) ==
    Flat([k \in 1..Len(MARKDOWN_SELECTORS) |->
             querySelectorAll(ns, root, MARKDOWN_SELECTORS[k])])

\* markdownToHtml(src) as its caller sees it, the activation being the
\* depth-th on the call stack: the value, or an exception
RECURSIVE convert(_, _)
nestedValues(calls, depth) == [i \in 1..Len(calls) |-> convert(calls[i], depth + 1)]
converted(src, values) ==
    IF \E i \in 1..Len(values) : values[i].threw THEN [html |-> <<>>, threw |-> TRUE]
    ELSE With(markdownToHtml(src, [i \in 1..Len(values) |-> values[i].html]), LAMBDA f :
             [html |-> f.html, threw |-> f.threw])
convert(src, depth) ==
    IF depth > CallStackCapacity THEN [html |-> <<>>, threw |-> TRUE]
    ELSE converted(src, nestedValues(markdownToHtml(src, <<>>).calls, depth))

\* for (let i = 0; i < el.attributes.length; i++) div.setAttribute(...)
RECURSIVE copyAttributes(_, _, _)
copyAttributes(from, i, to) ==
    IF i > Len(from) THEN to
    ELSE copyAttributes(from, i + 1, setAttribute(to, from[i].name, from[i].value))

\* the callback of elements.forEach after the conversion r of the source:
\* the div created, given the attributes and the markup, put in the place of el
replaced(st, el, source, r) ==
    IF r.threw THEN [st EXCEPT !.threw = TRUE]
    ELSE With(Len(st.nodes) + 1, LAMBDA div :
             [st EXCEPT
                 !.nodes = replaceWith(
                     setInnerHTML([createElement(st.nodes, S("div")) EXCEPT
                                      ![div].attrs = copyAttributes(st.nodes[el].attrs, 1, <<>>)],
                                  div, r.html),
                     el, div),
                 !.renders = Append(@, [el |-> el, div |-> div, source |-> source])])

\* the callback of elements.forEach
renderElement(st, el) ==
    With(innerHTML(st.nodes, el), LAMBDA source : replaced(st, el, source, convert(source, 1)))

\* elements.forEach from element i on, until a conversion throws
RECURSIVE forEachElement(_, _, _)
forEachElement(st, elements, i) ==
    IF st.threw \/ i > Len(elements) THEN st
    ELSE forEachElement(renderElement(st, elements[i]), elements, i + 1)

\* document.renderAllMarkdownTags(root), root 0 for none: the elements it
\* found, the page it left, the elements it replaced, and whether it threw
renderAllMarkdownTags(ns, root) ==
    With(markdownElements(ns, IF root = 0 THEN Body ELSE root), LAMBDA elements :
        [root |-> root, elements |-> elements, before |-> ns]
        @@ forEachElement([nodes |-> ns, renders |-> <<>>, threw |-> FALSE], elements, 1))

-----------------------------------------------------------------------------
(* markdownToHtml, one action per pass, in source order *)

placeholderTables == <<escapePlaceholders, codeBlocks, inlineCodeBlocks>>
counters == <<escapeIndex, codeIndex, inlineIndex>>

\* a page with an empty body, the script not loaded
EmptyPage == <<[tag |-> S("body"), attrs |-> <<>>, kids |-> <<>>, parent |-> 0]>>
NoPage ==
    /\ nodes = EmptyPage
    /\ readyState = "loading"
    /\ styles = 0
    /\ listeners = 0
    /\ loads = 0
    /\ added = <<>>
    /\ renderCalls = <<>>

\* the state in which a client calls markdownToHtml(text) for the first time
InitWith(texts) ==
    /\ input \in texts
    /\ pc = "enter"
    /\ md = <<>>
    /\ html = <<>>
    /\ escapePlaceholders = <<>>
    /\ codeBlocks = <<>>
    /\ inlineCodeBlocks = <<>>
    /\ escapeIndex = 0
    /\ codeIndex = 0
    /\ inlineIndex = 0
    /\ results = <<>>
    /\ callers = <<>>
    /\ history = <<>>
    /\ NoPage

\* the running activation
Frame ==
    [md |-> md, html |-> html, escapePlaceholders |-> escapePlaceholders,
     codeBlocks |-> codeBlocks, inlineCodeBlocks |-> inlineCodeBlocks,
     escapeIndex |-> escapeIndex, codeIndex |-> codeIndex, inlineIndex |-> inlineIndex,
     results |-> results, calls |-> <<>>, threw |-> FALSE]

\* An exception leaves markdownToHtml.  No activation catches it: it leaves
\* every caller too, and the client's call, whose argument is the input of
\* the outermost activation, returns nothing.
Thrown ==
    /\ pc' = "threw"
    /\ input' = (IF callers = <<>> THEN input ELSE callers[1].input)
    /\ callers' = <<>>
    /\ history' = Append(history, [input |-> input', html |-> <<>>, threw |-> TRUE])
    /\ UNCHANGED <<md, html, placeholderTables, counters, results, hostVars>>

\* the running activation after a pass, and its next position
Store(f, next) ==
    /\ md' = f.md
    /\ html' = f.html
    /\ escapePlaceholders' = f.escapePlaceholders
    /\ codeBlocks' = f.codeBlocks
    /\ inlineCodeBlocks' = f.inlineCodeBlocks
    /\ escapeIndex' = f.escapeIndex
    /\ codeIndex' = f.codeIndex
    /\ inlineIndex' = f.inlineIndex
    /\ pc' = next
    /\ UNCHANGED <<input, results, callers, history, hostVars>>

\* one pass at position at
Step(at, f, next) ==
    /\ pc = at
    /\ IF f.threw THEN Thrown ELSE Store(f, next)

\* Enter with the three tables declared outside the function: the counters
\* restart, the tables keep the records of earlier calls
EnterKeepingTables ==
    /\ pc = "enter"
    /\ md' = input
    /\ html' = <<>>
    /\ escapeIndex' = 0
    /\ codeIndex' = 0
    /\ inlineIndex' = 0
    /\ results' = <<>>
    /\ pc' = "escape"
    /\ UNCHANGED <<input, callers, history, placeholderTables, hostVars>>

\* const codeBlocks = [], inlineCodeBlocks = [], escapePlaceholders = [];
\* let codeIndex = 0, inlineIndex = 0, escapeIndex = 0;
Enter ==
    /\ pc = "enter"
    /\ md' = input
    /\ html' = <<>>
    /\ escapePlaceholders' = <<>>
    /\ codeBlocks' = <<>>
    /\ inlineCodeBlocks' = <<>>
    /\ escapeIndex' = 0
    /\ codeIndex' = 0
    /\ inlineIndex' = 0
    /\ results' = <<>>
    /\ pc' = "escape"
    /\ UNCHANGED <<input, callers, history, hostVars>>

Escape == Step("escape", pass(Frame, 1), "tokenize")
Tokenize == Step("tokenize", pass(Frame, 2), "indent")
TrimIndentation == Step("indent", pass(Frame, 3), "checkbox")
CheckboxLists == Step("checkbox", pass(Frame, 4), "lists")
NestedLists == Step("lists", pass(Frame, 5), "inline")
InlinePatterns == Step("inline", pass(Frame, 6), "images")
Images == Step("images", pass(Frame, 7), "links")
Links == Step("links", pass(Frame, 8), "quotes")

\* markdownToHtml(item.content) inside renderQuote: the running activation
\* waits in the blockquote pass, with its argument and its locals, for the
\* call it makes
CallNested(content) ==
    /\ callers' = Append(callers, [input |-> input] @@ Frame)
    /\ input' = content
    /\ pc' = "enter"
    /\ UNCHANGED <<md, html, placeholderTables, counters, results, history, hostVars>>

\* The blockquote pass with the activation f it leaves: it makes its next
\* call of markdownToHtml, which the call stack holds or not (RangeError),
\* or, every call having returned, it is done.
QuotePass(f) ==
    IF Len(results) < Len(f.calls)
    THEN IF Len(callers) + 2 > CallStackCapacity THEN Thrown
         ELSE CallNested(f.calls[Len(results) + 1])
    ELSE Store(f, "tables")

Blockquotes == pc = "quotes" /\ QuotePass(pass(Frame, 9))

Tables == Step("tables", pass(Frame, 10), "paragraphs")
Paragraphs == Step("paragraphs", pass(Frame, 11), "codeblocks")
RestoreCodeBlocks == Step("codeblocks", pass(Frame, 12), "inlinecode")
RestoreInlineCode == Step("inlinecode", pass(Frame, 13), "escaped")
RestoreEscaped == Step("escaped", pass(Frame, 14), "return")

\* the value goes to the client
ReturnToClient(value) ==
    /\ html' = value
    /\ history' = Append(history, [input |-> input, html |-> value, threw |-> FALSE])
    /\ pc' = "done"
    /\ UNCHANGED <<input, md, placeholderTables, counters, results, callers, hostVars>>

\* the value goes to the blockquote pass of the caller, which goes on
ReturnToCaller(caller, value) ==
    /\ input' = caller.input
    /\ md' = caller.md
    /\ html' = caller.html
    /\ escapePlaceholders' = caller.escapePlaceholders
    /\ codeBlocks' = caller.codeBlocks
    /\ inlineCodeBlocks' = caller.inlineCodeBlocks
    /\ escapeIndex' = caller.escapeIndex
    /\ codeIndex' = caller.codeIndex
    /\ inlineIndex' = caller.inlineIndex
    /\ results' = Append(caller.results, value)
    /\ callers' = SubSeq(callers, 1, Len(callers) - 1)
    /\ pc' = "quotes"
    /\ UNCHANGED <<history, hostVars>>

\* return html.trim();
Return ==
    /\ pc = "return"
    /\ IF callers = <<>> THEN ReturnToClient(pass(Frame, LastPass).html)
       ELSE ReturnToCaller(callers[Len(callers)], pass(Frame, LastPass).html)

\* the client calls markdownToHtml again
Call ==
    /\ pc \in {"done", "threw"}
    /\ Len(history) < MaxCalls
    /\ input' \in {Filler, html}
    /\ pc' = "enter"
    /\ UNCHANGED <<md, html, placeholderTables, counters, results, callers, history, hostVars>>

Next ==
    \/ Enter \/ Escape \/ Tokenize \/ TrimIndentation \/ CheckboxLists \/ NestedLists
    \/ InlinePatterns \/ Images \/ Links \/ Blockquotes \/ Tables \/ Paragraphs
    \/ RestoreCodeBlocks \/ RestoreInlineCode \/ RestoreEscaped \/ Return \/ Call

\* The documented examples, malformed markdown and quotes
Init == InitWith(Scenarios \cup Malformed \cup QuoteInputs)
Spec == Init /\ [][Next]_vars

\* The steps of a call that is running
Running ==
    \/ Enter \/ Escape \/ Tokenize \/ TrimIndentation \/ CheckboxLists \/ NestedLists
    \/ InlinePatterns \/ Images \/ Links \/ Blockquotes \/ Tables \/ Paragraphs
    \/ RestoreCodeBlocks \/ RestoreInlineCode \/ RestoreEscaped \/ Return
\* A call runs to completion: nothing suspends it, so the step that a
\* running call can take is taken.  This is the weak fairness of Running,
\* written out with what its enabling condition amounts to: every position
\* but "done" and "threw" has a step, whose only guard is the position.
RunsToCompletion == []<>(pc \in {"done", "threw"}) \/ []<><<Running>>_vars
SpecTerminating ==
    /\ InitWith(Scenarios \cup Malformed \cup QuoteInputs \cup ContinuedInputs
                \cup MidLineMarkers)
    /\ [][Next]_vars
    /\ RunsToCompletion

\* The same program on each family of inputs
SpecEscapes == InitWith(EscapeInputs) /\ [][Next]_vars
SpecCode == InitWith(CodeInputs) /\ [][Next]_vars
SpecProse == InitWith(ProseInputs) /\ [][Next]_vars
SpecLists == InitWith(ListInputs) /\ [][Next]_vars
SpecBoxes == InitWith(BoxInputs) /\ [][Next]_vars
SpecTables == InitWith(TableInputs) /\ [][Next]_vars
SpecFences == InitWith(FenceInputs) /\ [][Next]_vars
SpecOpen == InitWith(OpenInputs) /\ [][Next]_vars
SpecMixed == InitWith(MixedInputs) /\ [][Next]_vars
SpecContinued == InitWith(ContinuedInputs) /\ [][Next]_vars
SpecProtected == InitWith(ProtectedInputs) /\ [][Next]_vars
SpecBlocks == InitWith(QuoteBlockInputs) /\ [][Next]_vars

-----------------------------------------------------------------------------
(* The host page: the script loaded, the page's events and its scripts *)

\* no call of markdownToHtml by a client of the function
NoConversion ==
    /\ pc = "done"
    /\ input = <<>>
    /\ md = <<>>
    /\ html = <<>>
    /\ escapePlaceholders = <<>>
    /\ codeBlocks = <<>>
    /\ inlineCodeBlocks = <<>>
    /\ escapeIndex = 0
    /\ codeIndex = 0
    /\ inlineIndex = 0
    /\ results = <<>>
    /\ callers = <<>>
    /\ history = <<>>

\* the page while the browser parses it, the script not loaded yet
InitHost ==
    /\ NoConversion
    /\ nodes \in {setInnerHTML(EmptyPage, Body, markup) : markup \in HostPages}
    /\ readyState = "loading"
    /\ styles = 0
    /\ listeners = 0
    /\ loads = 0
    /\ added = <<>>
    /\ renderCalls = <<>>

\* The page and the calls of renderAllMarkdownTags after n more calls
\* without a root, one after the other, made by the script itself while
\* the head holds the given number of hiding rules
RECURSIVE renderTimes(_, _, _)
renderTimes(page, n, rules) ==
    IF n = 0 THEN page
    ELSE With(renderAllMarkdownTags(page.nodes, 0), LAMBDA r :
             renderTimes([nodes |-> r.nodes,
                          calls |-> Append(page.calls, [auto |-> TRUE, styles |-> rules] @@ r)],
                         n - 1, rules))

\* the page and the calls that a handler leaves
Leaves(page) ==
    /\ nodes' = page.nodes
    /\ renderCalls' = page.calls

\* LoadScript that registers the listener whatever document.readyState is
LoadScriptListening ==
    /\ loads < MaxLoads
    /\ loads' = loads + 1
    /\ styles' = styles + 1
    /\ listeners' = listeners + 1
    /\ UNCHANGED <<nodes, renderCalls, readyState, added, conversionVars>>

\* The script runs: the hiding rule is appended to the head, the two
\* functions are defined, and the automatic render is made now or left to a
\* listener of DOMContentLoaded
LoadScript ==
    /\ loads < MaxLoads
    /\ loads' = loads + 1
    /\ styles' = styles + 1
    /\ IF readyState = "loading"
       THEN listeners' = listeners + 1 /\ UNCHANGED <<nodes, renderCalls>>
       ELSE /\ Leaves(renderTimes([nodes |-> nodes, calls |-> renderCalls], 1, styles + 1))
            /\ UNCHANGED listeners
    /\ UNCHANGED <<readyState, added, conversionVars>>

\* The browser has parsed the page: DOMContentLoaded fires, and every
\* listener that the script registered calls renderAllMarkdownTags()
DOMContentLoaded ==
    /\ readyState = "loading"
    /\ readyState' = "interactive"
    /\ Leaves(renderTimes([nodes |-> nodes, calls |-> renderCalls], listeners, styles))
    /\ UNCHANGED <<styles, listeners, loads, added, conversionVars>>

\* the page and its resources are loaded
WindowLoad ==
    /\ readyState = "interactive"
    /\ readyState' = "complete"
    /\ UNCHANGED <<nodes, styles, listeners, loads, added, renderCalls, conversionVars>>

\* the page with a new markdown element that holds the text, under the body
withNewElement(ns, text) ==
    appendChild(appendText(createElement(ns, S("markdown")), Len(ns) + 1, text),
                Body, Len(ns) + 1)

\* A page script adds a markdown element to the body
AddElement ==
    /\ Len(added) < MaxAdded
    /\ \E text \in AddedContents : nodes' = withNewElement(nodes, text)
    /\ added' = Append(added, [id |-> Len(nodes) + 1, calls |-> Len(renderCalls),
                                 loads |-> loads])
    /\ UNCHANGED <<readyState, styles, listeners, loads, renderCalls, conversionVars>>

\* A page script calls document.renderAllMarkdownTags(root), without a
\* root or with an element of the page
CallRenderAllMarkdownTags ==
    /\ loads > 0
    /\ Len(SelectSeq(renderCalls, LAMBDA c : ~c.auto)) < MaxRenderCalls
    /\ \E root \in {0} \cup {id \in 2..Len(nodes) : isConnected(nodes, id)} :
           renderCalls' = Append(renderCalls, [auto |-> FALSE, styles |-> styles]
                                              @@ renderAllMarkdownTags(nodes, root))
    /\ nodes' = renderCalls'[Len(renderCalls')].nodes
    /\ UNCHANGED <<readyState, styles, listeners, loads, added, conversionVars>>

NextHost ==
    LoadScript \/ DOMContentLoaded \/ WindowLoad \/ AddElement \/ CallRenderAllMarkdownTags

SpecHost == InitHost /\ [][NextHost]_vars

-----------------------------------------------------------------------------
(* Reading the output *)

Returned == pc = "done"
Contains(s, pat) == IndexOf(s, pat) # 0
\* occurrences of pat that start before position p
CountBefore(s, pat, p) == Cardinality({q \in 1..(p - 1) : match(s, q, pat)})
\* the p-th smallest member of a set of numbers
Nth(set, k) == CHOOSE p \in set : Cardinality({q \in set : q < p}) = k - 1
\* the number of leading spaces of a line
WidthOf(line) == SkipSet(line, 1, {" "}) - 1

-----------------------------------------------------------------------------
(* The documented example of inline formatting *)

\* C1: markdownToHtml applied to **bold** _em_ returns exactly
\* <p><strong>bold</strong> <em>em</em></p>: the rewritten line is wrapped in
\* one paragraph element.
C1_BoldEmInParagraph ==
    (Returned /\ input = S("**bold** _em_"))
        => html = S("<p><strong>bold</strong> <em>em</em></p>")

\* what the call returns instead: the line starts with a tag, so the
\* Paragraph Assembler passes it through unwrapped
C1_BoldEmUnwrapped ==
    Returned /\ input = S("**bold** _em_")
             /\ html = S("<strong>bold</strong> <em>em</em>")

-----------------------------------------------------------------------------
(* Escaping *)

\* how a character of the escape set shows in the output of a context:
\* as itself in prose, HTML-escaped inside code
ShownIn(ctx, X) == IF ctx \in {"inline", "fenced"} THEN escapeHtml(<<X>>) ELSE <<X>>

\* C2: for every character X of the escape set and every place where \X
\* occurs (in prose, at a line start, inside an inline code span, inside a
\* fenced block), the output holds the literal X at that place.
C2_EscapedVerbatim ==
    \A ctx \in EscapeContexts, X \in EscapeSet :
        (Returned /\ input = Escaped(ctx, X))
            => IF ctx = "linestart"
               THEN html = S("<p>") \o <<X>> \o S(" b</p>")
               ELSE Contains(html, <<"a">> \o ShownIn(ctx, X) \o <<"b">>)

\* C2 outside inline code spans, where it holds
C2_EscapedVerbatimOutsideSpans ==
    \A ctx \in EscapeContexts \ {"inline"}, X \in EscapeSet :
        (Returned /\ input = Escaped(ctx, X))
            => IF ctx = "linestart"
               THEN html = S("<p>") \o <<X>> \o S(" b</p>")
               ELSE Contains(html, <<"a">> \o ShownIn(ctx, X) \o <<"b">>)

-----------------------------------------------------------------------------
(* Code isolation *)

\* C3: any text placed inside a fenced block, a double-backquote span or a
\* single-backquote span appears in the output HTML-escaped and otherwise
\* unmodified, whatever it contains and whatever surrounds it.
C3_CodeVerbatim ==
    \A kind \in Containers, payload \in CodePayloads :
        (Returned /\ input = Contained(kind, payload))
            => Contains(html, S("<code>") \o escapeHtml(payload) \o S("</code>"))

-----------------------------------------------------------------------------
(* No exception, trimmed output *)

\* C4: for every string input, malformed markdown and arbitrarily deep quote
\* nesting included, markdownToHtml does not throw and returns a string with
\* no leading or trailing whitespace.
C4_NeverThrows ==
    /\ pc # "threw"
    /\ Returned => (html = <<>> \/ (html[1] \notin WhiteSpace /\ html[Len(html)] \notin WhiteSpace))

\* the part of C4 that holds: a call that returns returns a trimmed string
C4_ReturnsTrimmed ==
    Returned => (html = <<>> \/ (html[1] \notin WhiteSpace /\ html[Len(html)] \notin WhiteSpace))

-----------------------------------------------------------------------------
(* Purity *)

\* C5: the placeholder tables and the counters are created fresh in every
\* call, top-level or nested, so a call returns what its body computes from
\* its input and the values of its own nested calls alone, whatever calls
\* happened before, and two calls with the same input return the same output.
C5_Pure ==
    /\ pc = "return" => pass(Frame, LastPass).html = markdownToHtml(input, results).html
    /\ Returned => html = markdownToHtml(input, results).html
    /\ \A i, j \in DOMAIN history :
           history[i].input = history[j].input => history[i].html = history[j].html

\* the same text converted twice, after a call that left records in all three
\* tables of its own
C5_SameInputTwice ==
    /\ Returned
    /\ Len(history) = 3
    /\ history[1].input # input
    /\ history[2].input = input
    /\ history[2].html = html
    /\ escapePlaceholders # <<>> /\ codeBlocks # <<>> /\ inlineCodeBlocks # <<>>

-----------------------------------------------------------------------------
(* Idempotence on prose *)

\* call k converted one paragraph of prose and call k + 1 converted what
\* call k returned
Reconverted(k) ==
    /\ k + 1 \in DOMAIN history
    /\ PlainProse(history[k].input)
    /\ ~history[k].threw /\ ~history[k + 1].threw
    /\ history[k + 1].input = history[k].html

\* C6: for every single paragraph p of pure prose,
\* markdownToHtml(markdownToHtml(p)) = markdownToHtml(p): the paragraph already
\* wrapped is not wrapped a second time.
C6_IdempotentOnProse ==
    \A k \in DOMAIN history : Reconverted(k) => history[k + 1].html = history[k].html

\* a paragraph of two lines converted, and its output converted again
C6_ProseReconverted ==
    \E k \in DOMAIN history :
        /\ Reconverted(k)
        /\ NL \in Range(trim(history[k].input))
        /\ history[k + 1].html = S("<p>") \o Join(Split(trim(history[k].input), NL), S("<br>")) \o S("</p>")

-----------------------------------------------------------------------------
(* List nesting *)

\* lists opened, and lists closed, before position p of the output
OpenedBefore(h, p) == CountBefore(h, S("<ul>"), p) + CountBefore(h, S("<ol>"), p)
ClosedBefore(h, p) == CountBefore(h, S("</ul>"), p) + CountBefore(h, S("</ol>"), p)
\* where the k-th item of a list input shows in the output
ItemAt(h, k) == IndexOf(h, <<ItemLetters[k]>>)
\* the nesting depth of the k-th rendered item
ItemDepth(h, k) == OpenedBefore(h, ItemAt(h, k)) - ClosedBefore(h, ItemAt(h, k))
InputWidths(text) == LET ls == Split(text, NL) IN [k \in 1..Len(ls) |-> WidthOf(ls[k])]
NonDecreasing(w) == \A k \in 1..(Len(w) - 1) : w[k] <= w[k + 1]
RisingSteps(w) == {k \in 1..(Len(w) - 1) : w[k] < w[k + 1]}

\* C7: for every list run whose items have non-decreasing indentation
\* widths, the depth of successive rendered items never decreases, each
\* strictly increasing step opens exactly one deeper list, an equal step opens
\* none, and the lists opened after the first item are as many as the
\* strictly increasing steps.
C7_NestingMonotone ==
    (Returned /\ input \in ListInputs /\ NonDecreasing(InputWidths(input))) =>
        LET w == InputWidths(input)
        IN  /\ \A k \in 1..Len(w) : ItemAt(html, k) # 0
            /\ ItemDepth(html, 1) = 1
            /\ \A k \in 1..(Len(w) - 1) :
                   /\ ItemDepth(html, k + 1) >= ItemDepth(html, k)
                   /\ OpenedBefore(html, ItemAt(html, k + 1)) - OpenedBefore(html, ItemAt(html, k))
                          = IF w[k] < w[k + 1] THEN 1 ELSE 0
                   /\ ItemDepth(html, k + 1) - ItemDepth(html, k)
                          = IF w[k] < w[k + 1] THEN 1 ELSE 0
            /\ OpenedBefore(html, Len(html) + 1) - 1 = Cardinality(RisingSteps(w))

\* two siblings and then a deeper ordered item
C7_SiblingsThenDeeper ==
    /\ Returned
    /\ input = ListRun(<<<<0, S("-")>>, <<0, S("-")>>, <<2, S("1.")>>>>)
    /\ html = S("<ul><li>A</li><li>B<ol><li value=\"1\">C</li></ol></li></ul>")

-----------------------------------------------------------------------------
(* Blockquote depth *)

QuoteOpen == S("<blockquote>")
QuoteClose == S("</blockquote>")
\* the blockquote elements open around the first occurrence of a character
QuoteDepth(h, c) ==
    CountBefore(h, QuoteOpen, IndexOf(h, <<c>>)) - CountBefore(h, QuoteClose, IndexOf(h, <<c>>))

\* C8: a quote block whose first line is &gt; x and whose next line is
\* &gt;&gt;&gt; a renders with exactly two nested blockquote elements around
\* a (the level-1 blockquote holding x and one nested blockquote holding a),
\* not three; the same holds for any number of markers above one on the
\* second line.
C8_TwoBlockquotes ==
    /\ (Returned /\ input = S("&gt; x\n&gt;&gt;&gt; a"))
           => html = S("<blockquote><p>x</p>\n<blockquote><p>a</p></blockquote></blockquote>")
    /\ \A k \in 2..MaxQuoteLevel :
           (Returned /\ input = QuoteStep(k))
               => /\ QuoteDepth(html, "x") = 1
                  /\ QuoteDepth(html, "a") = 2
                  /\ CountBefore(html, QuoteOpen, Len(html)) = 2

C8_ThreeMarkersUnderOne ==
    /\ Returned
    /\ input = QuoteStep(3)
    /\ input = S("&gt; x\n&gt;&gt;&gt; a")
    /\ QuoteDepth(html, "a") = 2

-----------------------------------------------------------------------------
(* Checkbox runs *)

\* the box marker of a checkbox line of the inputs, and what follows the box
BoxMarkOf(line) == line[4]
BoxContentOf(line) == From(line, 7)
\* an item holding a disabled checkbox, checked or not, and the content
BoxItem(isChecked, content) ==
    S("<li style=\"list-style: none;\"><label><input type=\"checkbox\"")
    \o (IF isChecked THEN S(" checked") ELSE <<>>)
    \o S(" disabled /> ") \o content \o S("</label></li>")
\* one unordered list whose item i is checked iff line i's own box is x or X
BoxListOf(text) ==
    LET ls == Split(text, NL)
    IN  S("<ul>")
        \o Flat([i \in 1..Len(ls) |-> BoxItem(BoxMarkOf(ls[i]) \in {"x", "X"}, BoxContentOf(ls[i]))])
        \o S("</ul>")

\* C9: a run of n checkbox lines renders as one unordered list with n items
\* in input order, each a disabled checkbox followed by its content, item i
\* checked if and only if line i's own box marker is [x] or [X], whatever the
\* content holds.
C9_CheckedIffOwnBox ==
    (Returned /\ input \in BoxInputs) => html = BoxListOf(input)

\* C9 for the runs whose contents hold no box of their own, where it holds
C9_CheckedIffOwnBoxPlainContent ==
    (Returned /\ input \in BoxInputs
              /\ \A l \in Range(Split(input, NL)) : BoxContentOf(l) = S("a"))
        => html = BoxListOf(input)

-----------------------------------------------------------------------------
(* Table alignment *)

\* the cells of a row of the inputs: the texts between its pipes
CellsOf(row) == Split(Sub(row, 2, Len(row) - 1), "|")
\* the rule of alignment: center with a leading and a trailing colon, right
\* with only a trailing colon, left otherwise
AlignRule(cell) ==
    LET t == trim(cell)
        leading == t # <<>> /\ t[1] = ":"
        trailing == t # <<>> /\ t[Len(t)] = ":"
    IN  IF leading /\ trailing THEN S("center")
        ELSE IF trailing THEN S("right")
        ELSE S("left")
\* the columns of the cells of a table input, row after row, the separator
\* row left out
ColumnsOf(text) ==
    LET ls == Split(text, NL)
        rows == <<ls[1]>> \o SubSeq(ls, 3, Len(ls))
    IN  Flat([r \in 1..Len(rows) |-> [i \in 1..Len(CellsOf(rows[r])) |-> i]])
\* where the output sets an alignment, and the alignment set at a position
AlignPositions(h) == {p \in 1..Len(h) : match(h, p, S("text-align:"))}
AlignAt(h, p) == Sub(h, p + 11, IndexFrom(h, S(";"), p) - 1)

\* C10: for every pipe table with a valid separator row, each header and
\* body cell in column i carries the text-align derived from separator cell
\* i: center with a leading and a trailing colon, right with only a trailing
\* colon, left otherwise.
C10_AlignmentPerColumn ==
    (Returned /\ input \in TableInputs) =>
        LET seps == CellsOf(Split(input, NL)[2])
            cols == ColumnsOf(input)
            at == AlignPositions(html)
        IN  /\ Cardinality(at) = Len(cols)
            /\ \A j \in 1..Len(cols) :
                   cols[j] <= Len(seps) => AlignAt(html, Nth(at, j)) = AlignRule(seps[cols[j]])

\* the separator :---|---: with two body rows: left on column 1 and right on
\* column 2 in every row
C10_LeftRight ==
    /\ Returned
    /\ input = Table(S(":---"), S("---:"), <<S("|1|2|"), S("| 3 | 4 |")>>)
    /\ html = S("<table><thead><tr><th style=\"text-align:left;\">h</th>")
              \o S("<th style=\"text-align:right;\">k</th></tr></thead><tbody>")
              \o S("<tr><td style=\"text-align:left;\">1</td><td style=\"text-align:right;\">2</td></tr>")
              \o S("<tr><td style=\"text-align:left;\">3</td><td style=\"text-align:right;\">4</td></tr>")
              \o S("</tbody></table>")

-----------------------------------------------------------------------------
(* Fenced blocks *)

\* the language tag and the lines of content of a fenced block of the inputs
FenceTagOf(text) == Sub(text, 4, IndexOf(text, <<NL>>) - 1)
FenceLinesOf(text) == Split(Sub(text, IndexOf(text, <<NL>>) + 1, Len(text) - 4), NL)
IsBlank(line) == \A i \in 1..Len(line) : line[i] \in WhiteSpace
\* the lines without the blank lines at both ends
RECURSIVE TrimBlankLines(_)
TrimBlankLines(lines) ==
    IF lines = <<>> THEN <<>>
    ELSE IF IsBlank(Head(lines)) THEN TrimBlankLines(Tail(lines))
    ELSE IF IsBlank(lines[Len(lines)]) THEN TrimBlankLines(SubSeq(lines, 1, Len(lines) - 1))
    ELSE lines
\* the fewest leading spaces of a line that is not blank
CommonIndent(lines) ==
    LET widths == {WidthOf(lines[i]) : i \in {j \in 1..Len(lines) : ~IsBlank(lines[j])}}
    IN  IF widths = {} THEN 0 ELSE CHOOSE w \in widths : \A v \in widths : w <= v
Dedented(lines) ==
    LET w == CommonIndent(lines) IN [i \in 1..Len(lines) |-> From(lines[i], w + 1)]
\* the code block of a tag and lines: tagged with the language, holding the
\* trimmed, dedented, HTML-escaped content
CodeBlockOf(tag, lines) ==
    S("<pre class=\"language-") \o (IF tag = <<>> THEN S("plaintext") ELSE tag)
    \o S("\"><code>") \o escapeHtml(Join(Dedented(TrimBlankLines(lines)), <<NL>>))
    \o S("</code></pre>")

\* C11: a fenced block opened by three backquotes and a language tag L
\* renders as <pre class="language-L"><code>...</code></pre> holding the
\* dedented, trimmed, HTML-escaped content, with class language-plaintext
\* when there is no tag; the js fence around console.log(1) renders as a
\* language-js block holding that statement.
C11_FencedBlock ==
    /\ (Returned /\ input \in FenceInputs)
           => html = CodeBlockOf(FenceTagOf(input), FenceLinesOf(input))
    /\ (Returned /\ input = S("^^^js\nconsole.log(1)\n^^^"))
           => html = S("<pre class=\"language-js\"><code>console.log(1)</code></pre>")

\* a js fence whose content is a blank line and an indented line
C11_JsFenceDedented ==
    /\ Returned
    /\ input = Fence(S("js"), <<S(" "), S("  <")>>)
    /\ html = S("<pre class=\"language-js\"><code>&lt;</code></pre>")

-----------------------------------------------------------------------------
(* Rendering in place *)

\* the node under which a call of renderAllMarkdownTags looks for elements
RootOf(c) == IF c.root = 0 THEN Body ELSE c.root
\* The element el that matched when the call c began has been replaced in
\* the page by the div d: d is where el was, carries the attributes of el
\* and holds the conversion of what el held
ReplacedBy(c, el, d) ==
    /\ ~isConnected(c.nodes, el)
    /\ isConnected(c.nodes, d)
    /\ c.nodes[d].tag = S("div")
    /\ c.nodes[d].parent = c.before[el].parent
    /\ c.nodes[d].attrs = c.before[el].attrs
    /\ innerHTML(c.nodes, d) = convert(innerHTML(c.before, el), 1).html
\* every element that matched when the call c began has been replaced, and
\* no markdown element is left under the root
AllReplaced(c) ==
    /\ Len(c.renders) = Len(c.elements)
    /\ \A i \in 1..Len(c.renders) :
           c.renders[i].el = c.elements[i] /\ ReplacedBy(c, c.elements[i], c.renders[i].div)
    /\ markdownElements(c.nodes, RootOf(c)) = <<>>
\* an element that matched when the call c began lay inside another one
Nested(c) == \E i \in 1..Len(c.elements) : markdownElements(c.before, c.elements[i]) # <<>>

\* C12: after renderAllMarkdownTags(root) returns, every element under the
\* root that matched a markdown selector when the call began has been
\* replaced in the page by a div with the same attributes whose content is
\* markdownToHtml of the element's inner content, for siblings and for
\* elements nested in one another, and no matching element is left
\* unrendered under the root.
C12_AllRendered ==
    \A k \in DOMAIN renderCalls : ~renderCalls[k].threw => AllReplaced(renderCalls[k])

\* C12 for the calls that find no markdown element inside another, where
\* it holds
C12_SiblingsRendered ==
    \A k \in DOMAIN renderCalls :
        (~renderCalls[k].threw /\ ~Nested(renderCalls[k])) => AllReplaced(renderCalls[k])

-----------------------------------------------------------------------------
(* Render lifecycle *)

\* the automatic renders made so far
AutomaticRenders == SelectSeq(renderCalls, LAMBDA c : c.auto)
\* the element of the record a was added after an automatic render, and the
\* script was not loaded again since
AddedAfterRender(a) ==
    /\ \E j \in 1..a.calls : renderCalls[j].auto
    /\ loads = a.loads
\* the call c, made without a root, returned and found the element el in the page
FoundBy(c, el) == c.root = 0 /\ ~c.threw /\ isConnected(c.before, el)

\* C13: the automatic render runs exactly once per load of the script, at
\* once when the document is no longer loading and otherwise when
\* DOMContentLoaded fires, and never before the hiding rule is in the head;
\* a markdown element added after the automatic render stays unrendered and
\* hidden until renderAllMarkdownTags is called explicitly, and that call
\* renders it.
C13_RenderLifecycle ==
    /\ Len(AutomaticRenders) = IF readyState = "loading" THEN 0 ELSE loads
    /\ \A k \in DOMAIN renderCalls : renderCalls[k].auto => renderCalls[k].styles >= 1
    /\ \A n \in DOMAIN added : AddedAfterRender(added[n]) =>
           /\ \A k \in DOMAIN renderCalls : k > added[n].calls => ~renderCalls[k].auto
           /\ Len(renderCalls) = added[n].calls =>
                  /\ isConnected(nodes, added[n].id)
                  /\ matchesMarkdown(nodes[added[n].id])
                  /\ innerHTML(nodes, added[n].id) \in AddedContents
                  /\ styles >= 1
           /\ \A k \in DOMAIN renderCalls :
                  (k > added[n].calls /\ FoundBy(renderCalls[k], added[n].id)) =>
                      \E i \in DOMAIN renderCalls[k].renders :
                          /\ renderCalls[k].renders[i].el = added[n].id
                          /\ ReplacedBy(renderCalls[k], added[n].id,
                                        renderCalls[k].renders[i].div)

\* the script was loaded after the page was parsed and rendered at once; an
\* element added later was rendered by a call that a page script made
C13_AddedThenRendered ==
    /\ loads = 1
    /\ listeners = 0
    /\ Len(renderCalls) = 2
    /\ renderCalls[1].auto /\ ~renderCalls[2].auto
    /\ Len(added) = 1 /\ added[1].calls = 1
    /\ FoundBy(renderCalls[2], added[1].id)
    /\ ~isConnected(nodes, added[1].id)
    /\ markdownElements(nodes, Body) = <<>>

-----------------------------------------------------------------------------
(* Openers without a closer *)

\* the scan of the buffer as the tokenizer finds it
Scan ==
    parseBackticks(md, escapePlaceholders, codeBlocks, inlineCodeBlocks, codeIndex,
                   inlineIndex)
\* what the text before the opener leaves in the buffer and in the table of
\* spans
PrefixOut(prefix) ==
    IF prefix = S("^a^ ") THEN inlinecodePlaceholder(0) \o S(" ") ELSE prefix
PrefixSpans(prefix) ==
    IF prefix = S("^a^ ") THEN <<[placeholder |-> inlinecodePlaceholder(0), code |-> S("a")]>>
    ELSE <<>>
\* the one record of the opener, its payload the text after it
OpenRecord(prefix, kind, payload) ==
    CASE kind \in {"single", "double"} ->
           [placeholder |-> inlinecodePlaceholder(Len(PrefixSpans(prefix))), code |-> payload]
      [] kind = "fence" ->
           [placeholder |-> codeblockPlaceholder(0),
            html |-> CodeBlockOf(<<>>, Split(payload, NL))]
      [] kind = "fence js" ->
           [placeholder |-> codeblockPlaceholder(0),
            html |-> CodeBlockOf(S("js"), Split(payload, NL))]
\* the result of the scan of an input that ends in an open opener
ConsumedToEnd(t, src, prefix, kind, payload) ==
    /\ ~t.threw
    /\ t.i = Len(src) + 1
    /\ t.out = PrefixOut(prefix) \o OpenRecord(prefix, kind, payload).placeholder
    /\ IF kind \in {"single", "double"}
       THEN /\ t.inlineCodeBlocks =
                   Append(PrefixSpans(prefix), OpenRecord(prefix, kind, payload))
            /\ t.codeBlocks = <<>>
       ELSE /\ t.codeBlocks = <<OpenRecord(prefix, kind, payload)>>
            /\ t.inlineCodeBlocks = PrefixSpans(prefix)

\* C14: in parseBackticks an opening fence, double backquote or single
\* backquote with no matching closer consumes the rest of the input: exactly
\* one placeholder is emitted for it, its payload is all the text after the
\* opener, the scan ends with the index at the length of the input, and no
\* error is raised.
C14_UnterminatedConsumesRest ==
    \A prefix \in OpenPrefixes, kind \in OpenKinds :
        \A payload \in OpenPayloads(kind) :
            (input = Unterminated(prefix, kind, payload) /\ callers = <<>> /\ history = <<>>) =>
                /\ pc # "threw"
                /\ pc = "tokenize" => ConsumedToEnd(Scan, md, prefix, kind, payload)
                /\ pc = "indent" =>
                       /\ Scan.out = md
                       /\ ConsumedToEnd([i |-> Len(input) + 1, threw |-> FALSE, out |-> md,
                                         codeBlocks |-> codeBlocks,
                                         inlineCodeBlocks |-> inlineCodeBlocks],
                                        input, prefix, kind, payload)

\* two backquotes after a closed span, never closed: the tokenizer has left
\* the second record of the table of spans, holding the text to the end
C14_OpenDoubleAfterSpan ==
    /\ pc = "indent"
    /\ input = Unterminated(S("^a^ "), "double", S("a^"))
    /\ md = inlinecodePlaceholder(0) \o S(" ") \o inlinecodePlaceholder(1)
    /\ inlineCodeBlocks[2].code = S("a^")
    /\ history = <<>>

-----------------------------------------------------------------------------
(* The list stack *)

\* the lines of the run that the renderer is about to take from the buffer
RunLines == Split(trimEnd(md), NL)
\* html and stack after the first n lines of a run
StackAfter(lines, n) == listLines([html |-> <<>>, stack |-> <<>>], SubSeq(lines, 1, n), 1)
\* the renderer stands before a run of the list inputs
BeforeListRun == pc = "lists" /\ input \in ListInputs
\* the renderer has replaced a run of the list inputs
AfterListRun == pc = "inline" /\ input \in ListInputs

\* The elements left open after reading the list markup of h from position
\* from with the elements of open already open, innermost last; not ok when
\* a closing tag closes another element than the innermost open one
RECURSIVE Nesting(_, _, _)
Nesting(h, from, open) ==
    With(First(from, Len(h), LAMBDA p : h[p] = "<"), LAMBDA k :
        IF k = 0 THEN [ok |-> TRUE, open |-> open]
        ELSE IF match(h, k, S("<ul>")) \/ match(h, k, S("<ol>"))
        THEN Nesting(h, k + 4, Append(open, Sub(h, k + 1, k + 2)))
        ELSE IF match(h, k, S("<li>")) \/ match(h, k, S("<li "))
        THEN Nesting(h, k + 3, Append(open, S("li")))
        ELSE IF match(h, k, S("</li>")) \/ match(h, k, S("</ul>")) \/ match(h, k, S("</ol>"))
        THEN IF open # <<>> /\ open[Len(open)] = Sub(h, k + 2, k + 3)
             THEN Nesting(h, k + 5, SubSeq(open, 1, Len(open) - 1))
             ELSE [ok |-> FALSE, open |-> open]
        ELSE Nesting(h, k + 1, open))
WellNested(h) == Nesting(h, 1, <<>>) = [ok |-> TRUE, open |-> <<>>]

\* C15: for every list run, whatever its indentation widths and list
\* types, the markup of the Nested List Renderer is well nested when the run
\* ends: every ul and ol is closed by a closing tag of its type, last opened
\* first closed, every li is closed, and the list stack is empty.
C15_ListsWellNested ==
    /\ BeforeListRun =>
           /\ closeAll(StackAfter(RunLines, Len(RunLines))).stack = <<>>
           /\ WellNested(closeAll(StackAfter(RunLines, Len(RunLines))).html)
           /\ WellNested(renderList(md))
    /\ AfterListRun => WellNested(md)

\* a run that goes two levels deeper and comes back one level
C15_DeeperAndBack ==
    /\ AfterListRun
    /\ input = ListRun(<<<<0, S("-")>>, <<2, S("1.")>>, <<1, S("-")>>>>)
    /\ md = S("<ul><li>A<ol><li value=\"1\">B</li></ol><ul><li>C</li></ul></li></ul>")

StrictlyIncreasing(stack) ==
    \A i, j \in DOMAIN stack : i < j => stack[i].indent < stack[j].indent

\* C16: after each line of a list run, for any sequence of indentation
\* widths, the frames of the list stack have strictly increasing indent from
\* bottom to top.
C16_StackStrictlyIncreasing ==
    BeforeListRun =>
        \A n \in 0..Len(RunLines) : StrictlyIncreasing(StackAfter(RunLines, n).stack)

\* after the lines of widths 0, 2, 1 the stack holds the frames of widths 0
\* and 1, and the run is rendered
C16_FramesZeroOne ==
    /\ AfterListRun
    /\ input = ListRun(<<<<0, S("-")>>, <<2, S("1.")>>, <<1, S("1.")>>>>)
    /\ StackAfter(Split(input, NL), 2).stack
           = <<[indent |-> 0, type |-> S("ul")], [indent |-> 2, type |-> S("ol")]>>
    /\ StackAfter(Split(input, NL), 3).stack
           = <<[indent |-> 0, type |-> S("ul")], [indent |-> 1, type |-> S("ol")]>>
    /\ WellNested(md)

\* line n of the run pops the frames that are strictly deeper than it, and
\* no other
PopsDeeperOnly(st, indent) ==
    With(popDeeper(st, indent).stack, LAMBDA kept :
        /\ kept = SubSeq(st.stack, 1, Len(kept))
        /\ \A j \in (Len(kept) + 1)..Len(st.stack) : st.stack[j].indent > indent
        /\ kept # <<>> => kept[Len(kept)].indent <= indent)
\* a line as deep as the top frame leaves the stack and opens a sibling item
SiblingAtEqualIndent(st, line, m) ==
    (st.stack # <<>> /\ st.stack[Len(st.stack)].indent = m.indent) =>
        /\ listLine(st, line).stack = st.stack
        /\ listLine(st, line).html
               = st.html \o S("</li><li>") \o itemContent(m, listType(m.marker))

\* C17: a list line whose indent equals the indent of the top frame pops no
\* frame and pushes none: the current item is closed and a sibling item is
\* opened in the same list; frames are popped only when their indent is
\* strictly greater than the indent of the line.
C17_EqualIndentSibling ==
    BeforeListRun =>
        \A n \in 1..Len(RunLines) :
            /\ listMatch(RunLines[n]).found
            /\ PopsDeeperOnly(StackAfter(RunLines, n - 1), listMatch(RunLines[n]).indent)
            /\ SiblingAtEqualIndent(StackAfter(RunLines, n - 1), RunLines[n],
                                    listMatch(RunLines[n]))

\* a bullet and then a numbered line of the same width: one list, two items
C17_SiblingOfOtherType ==
    /\ AfterListRun
    /\ input = ListRun(<<<<1, S("-")>>, <<1, S("1.")>>>>)
    /\ md = S("<ul><li>A</li><li value=\"1\">B</li></ul>")

-----------------------------------------------------------------------------
(* Blocks of checkbox lines and plain list lines *)

\* line k of a mixed block shows as an item of a checkbox list
BoxItemOf(h, kind, k) == Contains(h, BoxItem(kind = "checked", <<ItemLetters[k]>>))
\* line k of a mixed block shows as an item of a list of the Nested List
\* Renderer
ListItemOf(h, kind, k) ==
    /\ Contains(h, (IF kind = "numbered" THEN S("<li value=\"1\">") ELSE S("<li>"))
                   \o <<ItemLetters[k]>>)
    /\ ~Contains(h, (IF kind = "numbered" THEN S("1. ") ELSE S("- ")) \o <<ItemLetters[k]>>)
RenderedAsItem(h, kind, k) ==
    IF kind \in {"checked", "unchecked"} THEN BoxItemOf(h, kind, k) ELSE ListItemOf(h, kind, k)
\* no plain line of the shape comes right after a checkbox line
NoPlainAfterBox(shape) ==
    \A k \in 1..(Len(shape) - 1) :
        shape[k] \in {"checked", "unchecked"} => shape[k + 1] \in {"checked", "unchecked"}

\* C18: in any contiguous block that mixes checkbox lines and plain bullet
\* or numbered lines in any order, every checkbox line becomes an item of a
\* checkbox list and every plain line becomes an item of a list built by the
\* Nested List Renderer.
C18_MixedBlockRendered ==
    \A shape \in MixedShapes :
        (Returned /\ input = MixedBlock(shape)) =>
            \A k \in 1..Len(shape) : RenderedAsItem(html, shape[k], k)

\* C18 for the blocks in which no plain line comes right after a checkbox
\* line, where it holds
C18_MixedBlockRenderedPlainFirst ==
    \A shape \in MixedShapes :
        (Returned /\ input = MixedBlock(shape) /\ NoPlainAfterBox(shape)) =>
            \A k \in 1..Len(shape) : RenderedAsItem(html, shape[k], k)

-----------------------------------------------------------------------------
(* Continuation lines of a quote *)

\* the characters c and d of the output lie in the same innermost
\* blockquote: no blockquote opens or closes between them
SameBlockquote(h, c, d) ==
    /\ IndexOf(h, <<c>>) # 0
    /\ IndexOf(h, <<d>>) # 0
    /\ CountBefore(h, QuoteOpen, IndexOf(h, <<c>>)) = CountBefore(h, QuoteOpen, IndexOf(h, <<d>>))
    /\ CountBefore(h, QuoteClose, IndexOf(h, <<c>>)) = CountBefore(h, QuoteClose, IndexOf(h, <<d>>))

\* C19: a continuation line that follows quoted lines is rendered inside
\* the innermost blockquote open at that point, the blockquote of the line
\* before it, and starts no nesting level of its own.
C19_ContinuationInInnermost ==
    \A levels \in ContinuedLevels, tail \in ContinuedTails :
        (Returned /\ input = Continued(levels, tail)) =>
            /\ SameBlockquote(html, ItemLetters[Len(levels)], "Z")
            /\ QuoteDepth(html, "Z") = QuoteDepth(html, ItemLetters[Len(levels)])

\* what the continuation line does in every case: it lies in the outermost
\* blockquote of the run, and in the blockquote of the line before it when
\* that line lies there too
C19_ContinuationInOutermost ==
    \A levels \in ContinuedLevels, tail \in ContinuedTails :
        (Returned /\ input = Continued(levels, tail)) =>
            /\ QuoteDepth(html, "Z") = 1
            /\ CountBefore(html, QuoteOpen, Len(html)) = CountBefore(html, QuoteClose, Len(html) + 1)
            /\ QuoteDepth(html, ItemLetters[Len(levels)]) = 1
                   => SameBlockquote(html, ItemLetters[Len(levels)], "Z")

-----------------------------------------------------------------------------
(* Placeholders *)

\* the keys of the three tables of the running call
Placeholders ==
    [i \in DOMAIN escapePlaceholders |-> escapePlaceholders[i].placeholder]
    \o [i \in DOMAIN codeBlocks |-> codeBlocks[i].placeholder]
    \o [i \in DOMAIN inlineCodeBlocks |-> inlineCodeBlocks[i].placeholder]
UniqueKeys == \A i, j \in DOMAIN Placeholders : i # j => Placeholders[i] # Placeholders[j]
Occurrences(h, pat) == CountBefore(h, pat, Len(h) + 1)
\* between the tokenizer and the paragraph builder
InPasses3To10 ==
    pc \in {"indent", "checkbox", "lists", "inline", "images", "links", "quotes", "tables",
            "paragraphs"}
\* every key lies in the buffer, whole, once
KeysInBuffer == \A i \in DOMAIN Placeholders : Occurrences(md, Placeholders[i]) = 1
\* no text of a sentinel, whole or in part
NoSentinel(h) ==
    /\ ~Contains(h, S("escaped_"))
    /\ ~Contains(h, S("codeblock_"))
    /\ ~Contains(h, S("inlinecode_"))
\* what a protected text shows as
Shown(kind) ==
    CASE kind = "escape"         -> S("*")
      [] kind = "span"           -> S("<code>q</code>")
      [] kind = "fence"          -> S("<pre class=\"language-plaintext\"><code>f</code></pre>")
      [] kind = "escape in span" -> S("<code>q\\*</code>")
      [] kind = "dollar in span" -> S("<code>$&amp;</code>")
IntegrityOf(ctx, kind) ==
    input = InContext(ctx, Protected(kind)) =>
        /\ UniqueKeys
        /\ InPasses3To10 => KeysInBuffer
        /\ Returned => (NoSentinel(html) /\ Occurrences(html, Shown(kind)) = 1)

\* C20: every placeholder that the Escaper or the Literal Tokenizer creates
\* in a call has a key unique within the call, stays whole in the buffer
\* through passes 3 to 10 and is resolved by the Reassembler: the returned
\* string holds no sentinel text, whole or mangled, and each protected
\* payload shows in it exactly once.
C20_PlaceholderIntegrity ==
    \A ctx \in ProtectedContexts, kind \in ProtectedKinds : IntegrityOf(ctx, kind)

\* C20 for an escaped star, a span and a fenced block outside autolinks,
\* where it holds
C20_PlaceholderIntegrityPlain ==
    \A ctx \in ProtectedContexts \ {"autolink"}, kind \in {"escape", "span", "fence"} :
        IntegrityOf(ctx, kind)

-----------------------------------------------------------------------------
(* Termination *)

\* the argument of the client's call
ClientInput == IF callers = <<>> THEN input ELSE callers[1].input
\* the most quote markers that a line of the text holds
MarkersOn(line) == Occurrences(line, GT)
MaxMarkers(text) ==
    Greatest({0} \cup {MarkersOn(Split(text, NL)[i]) : i \in 1..Len(Split(text, NL))})
\* the lines of the buffer of the caller from which the running call's
\* argument comes
SourceLines(caller) ==
    {i \in 1..Len(Split(caller.md, NL)) : quoteItem(Split(caller.md, NL)[i]).content = input}
\* the argument is shorter than the quoted line, or it is a continuation
\* line, which makes no call of its own
ShorterOrFlat(line) ==
    IF quoteItem(line).isQuote THEN Len(input) < Len(line)
    ELSE markdownToHtml(input, <<>>).calls = <<>>
\* the recursion is as deep as the markers of a line allow, the call that
\* the blockquote pass is about to make included
RecursionBounded ==
    /\ Len(callers) <= MaxMarkers(ClientInput)
    /\ (pc = "quotes" /\ Len(results) < Len(pass(Frame, 9).calls))
           => Len(callers) + 1 <= MaxMarkers(ClientInput)
    /\ (pc = "enter" /\ callers # <<>>) =>
           /\ SourceLines(callers[Len(callers)]) # {}
           /\ \A i \in SourceLines(callers[Len(callers)]) :
                  ShorterOrFlat(Split(callers[Len(callers)].md, NL)[i])

\* C21: every conversion terminates: each call of markdownToHtml that
\* renderQuote makes is on a content strictly shorter than the quoted line it
\* comes from, or on a continuation line, which leads to no blockquote
\* recursion; the recursion is never deeper than the largest number of quote
\* markers on one line of the input; and a call that has started ends.
C21_Terminates ==
    /\ []RecursionBounded
    /\ (pc = "enter" /\ callers = <<>>) ~> (pc \in {"done", "threw"})

\* two markers on the line, two calls deep, the innermost about to return
C21_TwoDeep ==
    /\ Len(callers) = 2
    /\ callers[1].input = QuoteChain(2)
    /\ input = S("x")
    /\ pc = "return"

-----------------------------------------------------------------------------
(* The lines of a quote block *)

\* In renderQuote(items, level) from item i on, and in every call of
\* renderQuote that it makes, each quote item is as deep as the call's level
\* or deeper: none falls through both branches
RECURSIVE levelsCoveredFrom(_, _, _)
levelsCoveredFrom(items, level, i) ==
    IF i > Len(items) THEN TRUE
    ELSE IF ~items[i].isQuote \/ items[i].level = level
    THEN levelsCoveredFrom(items, level, i + 1)
    ELSE IF items[i].level > level
    THEN /\ levelsCoveredFrom(SubSeq(items, i, nestedEnd(items, i, items[i].level) - 1),
                              nestedLevel(items[i], level), 1)
         /\ levelsCoveredFrom(items, level, nestedEnd(items, i, items[i].level))
    ELSE FALSE
\* the contents that are handed to markdownToHtml, one for each item that is
\* no empty quoted line, in the order of the lines
ContentsOf(items) ==
    [k \in 1..Len(SelectSeq(items, LAMBDA it : ~it.isQuote \/ it.content # <<>>)) |->
        SelectSeq(items, LAMBDA it : ~it.isQuote \/ it.content # <<>>)[k].content]
\* line k of the block shows in the output once: its letter, or a line break
\* for each quoted line that holds nothing
ShownOnce(h, shape) ==
    /\ \A k \in 1..Len(shape) :
           shape[k][1] # "empty" => Occurrences(h, <<ItemLetters[k]>>) = 1
    /\ Occurrences(h, S("<br>")) = Cardinality({k \in 1..Len(shape) : shape[k][1] = "empty"})

\* C22: renderQuote loses no line: in every call renderQuote(items,
\* level), top-level or nested, each quote item has a level greater than or
\* equal to the level of the call, so each item of a quote block is rendered
\* exactly once, at its own level, in a nested run or as a continuation, and
\* none is dropped.
C22_NoLineLost ==
    \A shape \in BlockShapes :
        (input = QuoteBlock(shape) /\ callers = <<>>) =>
            /\ (pc = "quotes" /\ results = <<>>) =>
                   /\ levelsCoveredFrom(quoteItems(md), 1, 1)
                   /\ blockquotes(md, <<>>).calls = ContentsOf(quoteItems(md))
                   /\ Len(quoteItems(md)) = Len(shape)
            /\ Returned => ShownOnce(html, shape)

\* a level-2 line, a level-1 line and a continuation line: three items,
\* three renderings
C22_DeeperFirst ==
    /\ Returned
    /\ input = QuoteBlock(<<<<"letter", 2>>, <<"letter", 1>>, <<"continuation", 0>>>>)
    /\ html = S("<blockquote><blockquote><p>A</p></blockquote>\n<p>B</p>\n<p>C</p></blockquote>")

=============================================================================
